---- MODULE Spec2Model ----
(***************************************************************************)
(* A model of the lmapd execution runtime: the event-driven runner of     *)
(* src/src/runner.c (event firing, suppression engine, schedule/action    *)
(* state machines, child reaping) and the workspace queue of              *)
(* src/src/workspace.c (action workspace, _incoming staging, active       *)
(* queue).                                                                 *)
(***************************************************************************)
EXTENDS Integers, Sequences, FiniteSets, TLC

(***************************************************************************)
(* Bounds of the model.                                                    *)
(***************************************************************************)
MaxFirings == 3   \* total number of Event firings explored
MaxStamps == 1    \* workspace model: invocations of one Action that leave results
MaxFaults == 2    \* workspace model: filesystem calls that fail in one call
MaxReloads == 1   \* control model: reloads handled by one daemon process

(***************************************************************************)
(* Program constants.                                                      *)
(***************************************************************************)
SIGTERM == 15       \* signal sent by action_kill, and a shutdown signal
SIGHUP == 1         \* the reload signal
SIGINT == 2         \* a shutdown signal
EXIT_FAILURE == 1   \* exit status of a child whose setup failed

(***************************************************************************)
(* The configuration: Schedule s1 with Actions a1 and a2, started by the   *)
(* Event e1 (periodic or immediate) and ended by off; Schedule s2, the     *)
(* destination of a1's results, started by the immediate Event e2 (a2      *)
(* delivers to its own Schedule s1); Suppression sp1 from on to off and    *)
(* sp2 from e2 to e1.                                                      *)
(* List order is the order of the linked lists.  s1's mode, sp1's          *)
(* stop-running, e1's type, where the suppression tags sit and sp1's start *)
(* Event (on, or e1 in the suppression-order model) are chosen by Init.    *)
(***************************************************************************)
ScheduleList == <<"s1", "s2">>
Schedules == {"s1", "s2"}
Actions == {"a1", "a2"}
SuppList == <<"sp1", "sp2">>
Supps == {"sp1", "sp2"}
Events == {"e1", "e2", "on", "off"}

Red == <<"r", "e", "d">>
Rose == <<"r", "o", "s", "e">>
RStar == <<"r", "*">>

Modes == {"sequential", "parallel", "pipelined"}
StopValues == {"unset", "false", "true"}
Taggings == {"schedule", "action"}
StartTypes == {"periodic", "immediate"}

\* the programs of the Tasks of the configuration
Programs == {"/bin/p1", "/bin/p2"}

VARIABLES
    cfg,        \* the loaded configuration (never changes while running)
    schedules,  \* struct schedule: state, flags and counters
    actions,    \* struct action: state, pid, counters, last_*
    supps,      \* struct supp: state
    procs,      \* the child processes, one slot per Action
    ws,         \* files in each Action workspace
    incoming,   \* files in each Schedule's _incoming directory
    active,     \* files in each Schedule's base directory (active queue)
    fired,      \* number of Event firings so far, one-shot Events that fired
    failures,   \* base names of the invocations reaped with non-zero status
    last        \* the callback that ran last and what it did

\* the daemon process around the runner: main() of lmapd.c and the pid file
VARIABLES
    pidfile,    \* content of <run_path>/lmapd.pid
    daemons,    \* the lmapd processes started on the run_path
    main,       \* main() and lmapd_run of the daemon that owns the runner
    sigchld,    \* a CHLD notification is pending in the event loop
    meta,       \* the meta file of each Action's current invocation
    timer       \* the clock and the libevent timers of the timed Event

\* data the daemon and its tools read and write outside the event loop
VARIABLES
    lmap,       \* struct lmap: the configuration the parser builds and checks
    csv,        \* a CSV file, its writer and its reader
    basedir     \* the entries below the base directory of one Schedule

runnerVars == <<cfg, schedules, actions, supps, procs, ws, incoming, active,
                fired, failures, last>>

extVars == <<pidfile, daemons, main, sigchld, meta, timer, lmap, csv, basedir>>

vars == <<cfg, schedules, actions, supps, procs, ws, incoming, active,
          fired, failures, last, pidfile, daemons, main, sigchld, meta,
          timer, lmap, csv, basedir>>

(***************************************************************************)
(* Configuration accessors.                                                *)
(***************************************************************************)
Configs ==
    [mode : Modes, stop : StopValues, tagging : Taggings, start : StartTypes,
     sp1_start : {"on"}, capability : {Programs}]

sched_actions(s) == IF s = "s1" THEN <<"a1", "a2">> ELSE <<>>

action_schedule(a) == "s1"

sched_mode(s) == IF s = "s1" THEN cfg.mode ELSE "sequential"

sched_start(s) == IF s = "s1" THEN "e1" ELSE "e2"

sched_end(s) == IF s = "s1" THEN "off" ELSE "none"

sched_suppression_tags(s) ==
    IF s = "s1" /\ cfg.tagging = "schedule" THEN <<Red>> ELSE <<>>

action_suppression_tags(a) ==
    IF cfg.tagging # "action" THEN <<>>
    ELSE IF a = "a1" THEN <<Red>>
    ELSE <<Rose>>

action_destinations(a) == IF a = "a1" THEN <<"s2">> ELSE <<"s1">>

event_type(e) ==
    IF e = "e2" THEN "immediate"
    ELSE IF e = "e1" THEN cfg.start
    ELSE "periodic"

supp_start(p) == IF p = "sp1" THEN cfg.sp1_start ELSE "e2"

supp_end(p) == IF p = "sp1" THEN "off" ELSE "e1"

supp_match(p) == IF p = "sp1" THEN <<Red>> ELSE <<RStar>>

\* lmap_supp_set_stop_running: a parsed value sets the presence flag,
\* whatever the value is
supp_stop_running_set(p) == p = "sp1" /\ cfg.stop # "unset"

supp_stop_running(p) == p = "sp1" /\ cfg.stop = "true"

\* the program of the Task of an Action
task_program(a) == IF a = "a1" THEN "/bin/p1" ELSE "/bin/p2"

\* action_exec's walk over the Tasks of the Capability: the program of the
\* Action's Task is string-equal to the program of one of them
task_capable(a) == task_program(a) \in cfg.capability

Pid(a) == IF a = "a1" THEN 101 ELSE 102

(***************************************************************************)
(* fnmatch(pattern, string, 0) on tags: '*' matches any sequence of        *)
(* characters, '?' any single character, anything else itself.             *)
(***************************************************************************)
RECURSIVE fnmatch(_, _)
fnmatch(p, t) ==
    IF p = <<>> THEN t = <<>>
    ELSE IF Head(p) = "*"
         THEN fnmatch(Tail(p), t) \/ (t # <<>> /\ fnmatch(p, Tail(t)))
         ELSE /\ t # <<>>
              /\ (Head(p) = "?" \/ Head(p) = Head(t))
              /\ fnmatch(Tail(p), Tail(t))

big_tag_match(match, tags) ==
    \E i \in DOMAIN match : \E j \in DOMAIN tags : fnmatch(match[i], tags[j])

(***************************************************************************)
(* Result files.  A file name is <last_invocation>-<schedule>-<action>     *)
(* plus ".data" or ".meta"; the pair shares its base name.                 *)
(***************************************************************************)
Base(t, a) == <<t, action_schedule(a), a>>

DataFile(b) == <<b, "data">>

MetaFile(b) == <<b, "meta">>

(***************************************************************************)
(* The daemon state handed through a callback: the entities, the children, *)
(* the queue, and what the callback did so far.                            *)
(***************************************************************************)
Bundle ==
    [schedules |-> schedules, actions |-> actions, supps |-> supps,
     procs |-> procs, ws |-> ws, incoming |-> incoming, active |-> active,
     failures |-> failures, killed |-> {}, forked |-> {}, dispatched |-> {}, reaped |-> {}]

NoProc == [phase |-> "none", sigterm |-> FALSE, wstatus |-> 0]

\* variant: the program of the Task is not looked up in the Capability
action_exec_any_program(m, s, a, t) ==
    LET act == m.actions[a]
        m1 == IF act.state = "suppressed"
              THEN [m EXCEPT !.actions[a].cnt_suppressions = @ + 1]
              ELSE m
    IN  IF act.state \in {"disabled", "suppressed"}
        THEN [m |-> m1, rc |-> 0]
        ELSE IF act.pid # 0
        THEN [m |-> [m1 EXCEPT !.actions[a].cnt_overlaps = @ + 1], rc |-> -1]
        ELSE [m |-> [m1 EXCEPT
                       !.actions[a] = [@ EXCEPT !.pid = Pid(a),
                                                !.last_invocation = t,
                                                !.state = "running",
                                                !.cnt_invocations = @ + 1],
                       !.procs[a] = [phase |-> "forked", sigterm |-> FALSE,
                                     wstatus |-> 0],
                       !.forked = @ \cup {a}],
              rc |-> 1]

(***************************************************************************)
(* action_exec: returns the new state and the return code (1 forked,       *)
(* 0 not run, -1 error).                                                   *)
(***************************************************************************)
action_exec(m, s, a, t) ==
    LET act == m.actions[a]
        m1 == IF act.state = "suppressed"
              THEN [m EXCEPT !.actions[a].cnt_suppressions = @ + 1]
              ELSE m
    IN  IF act.state \in {"disabled", "suppressed"}
        THEN [m |-> m1, rc |-> 0]
        ELSE IF ~ task_capable(a)
        THEN [m |-> m1, rc |-> -1]
        ELSE IF act.pid # 0
        THEN [m |-> [m1 EXCEPT !.actions[a].cnt_overlaps = @ + 1], rc |-> -1]
        ELSE [m |-> [m1 EXCEPT
                       !.actions[a] = [@ EXCEPT !.pid = Pid(a),
                                                !.last_invocation = t,
                                                !.state = "running",
                                                !.cnt_invocations = @ + 1],
                       !.procs[a] = [phase |-> "forked", sigterm |-> FALSE,
                                     wstatus |-> 0],
                       !.forked = @ \cup {a}],
              rc |-> 1]

\* lmapd_workspace_action_clean: remove everything in the workspace
lmapd_workspace_action_clean(m, a) == [m EXCEPT !.ws[a] = {}]

RECURSIVE clean_actions(_, _)
clean_actions(m, acts) ==
    IF acts = <<>> THEN m
    ELSE clean_actions(lmapd_workspace_action_clean(m, Head(acts)), Tail(acts))

RECURSIVE exec_actions(_, _, _, _)
exec_actions(m, s, acts, t) ==
    IF acts = <<>> THEN m
    ELSE LET r == action_exec(m, s, Head(acts), t)
             m1 == IF r.rc = 1
                   THEN [r.m EXCEPT !.schedules[s].state = "running"]
                   ELSE r.m
         IN  exec_actions(m1, s, Tail(acts), t)

\* variant: a sequential Schedule starts every Action at dispatch
first_action_all(s) == sched_actions(s)

\* the head of the Schedule's list of Actions, if there is one
first_action(s) ==
    IF sched_actions(s) = <<>> THEN <<>> ELSE <<Head(sched_actions(s))>>

schedule_exec(m, s, t) ==
    LET m0 == [clean_actions(m, sched_actions(s)) EXCEPT
                   !.dispatched = @ \cup {s}]
        m1 == [m0 EXCEPT !.schedules[s].cnt_invocations = @ + 1,
                         !.schedules[s].last_invocation = t]
    IN  CASE sched_mode(s) = "sequential" ->
                 exec_actions(m1, s, first_action(s), t)
          [] sched_mode(s) = "parallel" ->
                 exec_actions(m1, s, sched_actions(s), t)
          [] OTHER ->
                 [m0 EXCEPT !.schedules[s].state = "disabled"]

\* action_kill: SIGTERM to the child of a running Action
action_kill(m, a) ==
    IF m.actions[a].state = "running" /\ m.actions[a].pid # 0
    THEN [m EXCEPT !.killed = @ \cup {a},
                   !.procs[a].sigterm =
                       @ \/ m.procs[a].phase \in {"forked", "exec"}]
    ELSE m

RECURSIVE kill_actions(_, _)
kill_actions(m, acts) ==
    IF acts = <<>> THEN m
    ELSE kill_actions(action_kill(m, Head(acts)), Tail(acts))

schedule_kill(m, s) == kill_actions(m, sched_actions(s))

(***************************************************************************)
(* Filesystem primitives.  link fails when the new name exists (EEXIST),   *)
(* when the old name is missing, and when the environment makes it fail;   *)
(* unlink fails when the environment makes it fail.  `bad` is the set of   *)
(* <<operation, file>> calls the environment fails in this callback.       *)
(***************************************************************************)
link_ok(src, dst, f, op, bad) == f \in src /\ f \notin dst /\ <<op, f>> \notin bad

unlink_ok(dir, f, op, bad) == f \in dir /\ <<op, f>> \notin bad

\* variant: the .meta is linked although the link of the .data failed
move_pair_meta_anyway(q, b, bad) ==
    LET d == DataFile(b)
        mt == MetaFile(b)
    IN  IF mt \notin q.incoming \/ d \notin q.incoming
        THEN [q |-> q, stop |-> FALSE]
        ELSE IF ~ link_ok(q.incoming, q.active, mt, "link", bad)
        THEN [q |-> q, stop |-> TRUE]
        ELSE [q |-> [incoming |-> q.incoming \ {mt},
                     active |-> q.active \cup {mt} \cup
                        (IF link_ok(q.incoming, q.active, d, "link", bad)
                         THEN {d} ELSE {}),
                     failed |-> q.failed],
              stop |-> FALSE]

\* variant: a failed link of the .meta leaves the linked .data behind
move_pair_no_rollback(q, b, bad) ==
    LET d == DataFile(b)
        mt == MetaFile(b)
    IN  IF mt \notin q.incoming \/ d \notin q.incoming
        THEN [q |-> q, stop |-> FALSE]
        ELSE IF ~ link_ok(q.incoming, q.active, d, "link", bad)
        THEN [q |-> q, stop |-> FALSE]
        ELSE IF ~ link_ok(q.incoming, q.active, mt, "link", bad)
        THEN [q |-> [q EXCEPT !.active = @ \cup {d},
                              !.failed = @ \cup {<<"link", mt>>}],
              stop |-> TRUE]
        ELSE [q |-> [incoming |-> q.incoming \ {d, mt},
                     active |-> q.active \cup {d, mt},
                     failed |-> q.failed],
              stop |-> FALSE]

(***************************************************************************)
(* lmapd_workspace_schedule_move: scan _incoming (`order` is the order in  *)
(* which readdir returns the .meta entries) and promote complete pairs.    *)
(* Works on q = [incoming, active], the two directories of one Schedule,   *)
(* and collects in `failed` the calls whose failure it logs.               *)
(***************************************************************************)
move_pair(q, b, bad) ==
    LET d == DataFile(b)
        mt == MetaFile(b)
    IN  IF mt \notin q.incoming \/ d \notin q.incoming
        THEN [q |-> q, stop |-> FALSE]
        ELSE IF ~ link_ok(q.incoming, q.active, d, "link", bad)
        THEN [q |-> [q EXCEPT !.failed = @ \cup {<<"link", d>>}],
              stop |-> FALSE]
        ELSE IF ~ link_ok(q.incoming, q.active, mt, "link", bad)
        THEN [q |-> IF <<"rollback", d>> \in bad
                    THEN [q EXCEPT !.active = @ \cup {d},
                                   !.failed = @ \cup {<<"link", mt>>,
                                                      <<"rollback", d>>}]
                    ELSE [q EXCEPT !.failed = @ \cup {<<"link", mt>>}],
              stop |-> TRUE]
        ELSE [q |-> [incoming |->
                        (q.incoming
                           \ (IF unlink_ok(q.incoming, mt, "unlink", bad)
                              THEN {mt} ELSE {}))
                           \ (IF unlink_ok(q.incoming, d, "unlink", bad)
                              THEN {d} ELSE {}),
                     active |-> q.active \cup {d, mt},
                     failed |-> q.failed \cup
                        {<<"unlink", f>> : f \in
                            {g \in {d, mt} :
                                ~ unlink_ok(q.incoming, g, "unlink", bad)}}],
              stop |-> FALSE]

RECURSIVE scan_incoming(_, _, _)
scan_incoming(q, order, bad) ==
    IF order = <<>> THEN q
    ELSE LET r == move_pair(q, Head(order), bad)
         IN  IF r.stop THEN r.q ELSE scan_incoming(r.q, Tail(order), bad)

lmapd_workspace_schedule_move(q, order, bad) ==
    scan_incoming([incoming |-> q.incoming, active |-> q.active,
                   failed |-> {}], order, bad)

\* the base names of the .meta entries of a directory
MetaBases(dir) == {f[1] : f \in {g \in dir : g[2] = "meta"}}

\* all orders in which readdir may return the elements of a set
RECURSIVE Orders(_)
Orders(S) ==
    IF S = {} THEN {<<>>}
    ELSE UNION {{<<x>> \o o : o \in Orders(S \ {x})} : x \in S}

\* one order, for callers whose result does not depend on it
AnyOrder(S) == CHOOSE o \in Orders(S) : TRUE

(***************************************************************************)
(* lmapd_workspace_action_move: link every entry of the Action workspace   *)
(* into the destination (its _incoming, or its active queue when the       *)
(* destination is the Action's own Schedule).                              *)
(***************************************************************************)
link_all(src, dst, bad) ==
    dst \cup {f \in src : link_ok(src, dst, f, "link", bad)}

lmapd_workspace_action_move(m, s, a, dst, bad) ==
    IF dst # s
    THEN [m EXCEPT !.incoming[dst] = link_all(m.ws[a], @, bad)]
    ELSE [m EXCEPT !.active[dst] = link_all(m.ws[a], @, bad)]

RECURSIVE move_to_destinations(_, _, _, _, _)
move_to_destinations(m, s, a, dsts, bad) ==
    IF dsts = <<>> THEN m
    ELSE move_to_destinations(
             lmapd_workspace_action_move(m, s, a, Head(dsts), bad),
             s, a, Tail(dsts), bad)

\* lmapd_workspace_schedule_clean: unlink the files of the active queue
lmapd_workspace_schedule_clean(m, s, bad) ==
    [m EXCEPT !.active[s] = {f \in @ : ~ unlink_ok(@, f, "clean", bad)}]

(***************************************************************************)
(* Suppression engine.                                                     *)
(***************************************************************************)
supp_start_action(m, p, s, a) ==
    IF m.actions[a].state = "disabled" THEN m
    ELSE LET m1 == IF m.schedules[s].stop_running
                   THEN action_kill(m, a) ELSE m
         IN  IF ~ big_tag_match(supp_match(p), action_suppression_tags(a))
             THEN m1
             ELSE LET m2 == IF m1.actions[a].state = "enabled"
                            THEN [m1 EXCEPT !.actions[a].state = "suppressed"]
                            ELSE m1
                      m3 == IF /\ m2.actions[a].state = "running"
                               /\ ~ m2.schedules[s].stop_running
                               /\ supp_stop_running_set(p)
                            THEN [action_kill(m2, a) EXCEPT
                                      !.actions[a].state = "suppressed"]
                            ELSE m2
                  IN  [m3 EXCEPT !.actions[a].cnt_active_suppressions = @ + 1]

RECURSIVE supp_start_actions(_, _, _, _)
supp_start_actions(m, p, s, acts) ==
    IF acts = <<>> THEN m
    ELSE supp_start_actions(supp_start_action(m, p, s, Head(acts)),
                            p, s, Tail(acts))

\* variant: only a Schedule in state enabled counts the Suppression
supp_start_schedule_enabled_only(m, p, s) ==
    IF m.schedules[s].state = "disabled" THEN m
    ELSE LET m1 ==
                 IF /\ big_tag_match(supp_match(p), sched_suppression_tags(s))
                    /\ m.schedules[s].state = "enabled"
                 THEN [m EXCEPT !.schedules[s] =
                          [@ EXCEPT
                             !.state = "suppressed",
                             !.stop_running = @ \/ supp_stop_running_set(p),
                             !.cnt_active_suppressions = @ + 1]]
                 ELSE m
         IN  supp_start_actions(m1, p, s, sched_actions(s))

supp_start_schedule(m, p, s) ==
    IF m.schedules[s].state = "disabled" THEN m
    ELSE LET m1 ==
                 IF big_tag_match(supp_match(p), sched_suppression_tags(s))
                 THEN [m EXCEPT !.schedules[s] =
                          [@ EXCEPT
                             !.state = IF @ = "enabled"
                                       THEN "suppressed" ELSE @,
                             !.stop_running = @ \/ supp_stop_running_set(p),
                             !.cnt_active_suppressions = @ + 1]]
                 ELSE m
         IN  supp_start_actions(m1, p, s, sched_actions(s))

RECURSIVE supp_start_schedules(_, _, _)
supp_start_schedules(m, p, scheds) ==
    IF scheds = <<>> THEN m
    ELSE supp_start_schedules(supp_start_schedule(m, p, Head(scheds)),
                              p, Tail(scheds))

suppression_start(m, p) ==
    IF supp_match(p) = <<>> THEN m
    ELSE supp_start_schedules([m EXCEPT !.supps[p].state = "active"],
                              p, ScheduleList)

\* the decrement of cnt_active_suppressions, floored at zero, and the
\* return to enabled (the same code for a Schedule and for an Action)
\* variant: the end of one Suppression re-enables the item although others
\* are still active for it
unsuppress_any(x) ==
    LET n == IF x.cnt_active_suppressions # 0
             THEN x.cnt_active_suppressions - 1 ELSE 0
    IN  [x EXCEPT !.cnt_active_suppressions = n,
                  !.state = IF @ = "suppressed" THEN "enabled" ELSE @]

unsuppress(x) ==
    LET n == IF x.cnt_active_suppressions # 0
             THEN x.cnt_active_suppressions - 1 ELSE 0
    IN  [x EXCEPT !.cnt_active_suppressions = n,
                  !.state = IF n = 0 /\ @ = "suppressed" THEN "enabled" ELSE @]

supp_end_action(m, p, a) ==
    IF m.actions[a].state = "disabled" THEN m
    ELSE IF big_tag_match(supp_match(p), action_suppression_tags(a))
    THEN [m EXCEPT !.actions[a] = unsuppress(@)]
    ELSE m

RECURSIVE supp_end_actions(_, _, _)
supp_end_actions(m, p, acts) ==
    IF acts = <<>> THEN m
    ELSE supp_end_actions(supp_end_action(m, p, Head(acts)), p, Tail(acts))

supp_end_schedule(m, p, s) ==
    IF m.schedules[s].state = "disabled" THEN m
    ELSE LET m1 ==
                 IF big_tag_match(supp_match(p), sched_suppression_tags(s))
                 THEN [m EXCEPT !.schedules[s] = unsuppress(@)]
                 ELSE m
         IN  supp_end_actions(m1, p, sched_actions(s))

RECURSIVE supp_end_schedules(_, _, _)
supp_end_schedules(m, p, scheds) ==
    IF scheds = <<>> THEN m
    ELSE supp_end_schedules(supp_end_schedule(m, p, Head(scheds)),
                            p, Tail(scheds))

suppression_end(m, p) ==
    IF supp_match(p) = <<>> THEN m
    ELSE supp_end_schedules([m EXCEPT !.supps[p].state = "enabled"],
                            p, ScheduleList)

suppress_one(m, p, e) ==
    IF m.supps[p].state = "disabled" THEN m
    ELSE LET m1 == IF supp_start(p) = e /\ m.supps[p].state = "enabled"
                   THEN suppression_start(m, p) ELSE m
         IN  IF supp_end(p) = e /\ m1.supps[p].state = "active"
             THEN suppression_end(m1, p) ELSE m1

RECURSIVE suppress_list(_, _, _)
suppress_list(m, ps, e) ==
    IF ps = <<>> THEN m
    ELSE suppress_list(suppress_one(m, Head(ps), e), Tail(ps), e)

suppress_cb(m, e) == suppress_list(m, SuppList, e)

(***************************************************************************)
(* lmapd_cleanup: the completion flow for one reaped child, and the loop   *)
(* over every child waitpid returns.                                       *)
(***************************************************************************)
next_action(a) ==
    LET acts == sched_actions(action_schedule(a))
        i == CHOOSE k \in DOMAIN acts : acts[k] = a
    IN  IF i < Len(acts) THEN acts[i + 1] ELSE "none"

\* variant: the state of the Schedule is not looked at after a reap
schedule_survey_left_out(m, s) == m

\* variant: a Schedule whose Actions have all ended becomes enabled although
\* Suppressions are active for it
schedule_survey_enabled(m, s) ==
    IF m.schedules[s].state # "running" THEN m
    ELSE LET acts == {sched_actions(s)[k] : k \in DOMAIN sched_actions(s)}
             running == \E a \in acts : m.actions[a].state = "running"
             st == IF running THEN "running" ELSE "enabled"
         IN  [m EXCEPT !.schedules[s].state = st]

\* variant: the failure counter moves in every survey that sees a failed
\* Action, also while another Action of the Schedule is still running
schedule_survey_count_early(m, s) ==
    IF m.schedules[s].state # "running" THEN m
    ELSE LET acts == {sched_actions(s)[k] : k \in DOMAIN sched_actions(s)}
             running == \E a \in acts : m.actions[a].state = "running"
             failed == \E a \in acts : m.actions[a].last_status # 0
             succeeded == \E a \in acts : m.actions[a].last_status = 0
             st == IF running THEN "running"
                   ELSE IF m.schedules[s].cnt_active_suppressions # 0
                   THEN "suppressed" ELSE "enabled"
             m1 == [m EXCEPT !.schedules[s].state = st]
         IN  IF failed
             THEN [m1 EXCEPT !.schedules[s].cnt_failures = @ + 1]
             ELSE IF succeeded /\ st # "running"
             THEN lmapd_workspace_schedule_clean(m1, s, {})
             ELSE m1

schedule_survey(m, s) ==
    IF m.schedules[s].state # "running" THEN m
    ELSE LET acts == {sched_actions(s)[k] : k \in DOMAIN sched_actions(s)}
             running == \E a \in acts : m.actions[a].state = "running"
             failed == \E a \in acts : m.actions[a].last_status # 0
             succeeded == \E a \in acts : m.actions[a].last_status = 0
             st == IF running THEN "running"
                   ELSE IF m.schedules[s].cnt_active_suppressions # 0
                   THEN "suppressed" ELSE "enabled"
             m1 == [m EXCEPT !.schedules[s].state = st]
         IN  IF st = "running" THEN m1
             ELSE IF failed
             THEN [m1 EXCEPT !.schedules[s].cnt_failures = @ + 1]
             ELSE IF succeeded
             THEN lmapd_workspace_schedule_clean(m1, s, {})
             ELSE m1

\* variant: the results are moved to the destinations whatever the status
reap_child_move_always(m, a, t) ==
    LET s == action_schedule(a)
        st == m.procs[a].wstatus
        m1 == [m EXCEPT
                 !.procs[a] = NoProc,
                 !.reaped = @ \cup {a},
                 !.failures = IF st # 0
                              THEN @ \cup {Base(m.actions[a].last_invocation, a)}
                              ELSE @,
                 !.actions[a] = [@ EXCEPT
                     !.pid = 0,
                     !.state = "enabled",
                     !.last_status = st,
                     !.cnt_failures = IF st # 0 THEN @ + 1 ELSE @]]
        m2 == move_to_destinations(m1, s, a, action_destinations(a), {})
        m3 == lmapd_workspace_action_clean(m2, a)
        m4 == IF /\ next_action(a) # "none"
                 /\ sched_mode(s) = "sequential"
                 /\ m3.schedules[s].state # "suppressed"
                 /\ ~ m3.schedules[s].stop_running
              THEN action_exec(m3, s, next_action(a), t).m
              ELSE m3
    IN  schedule_survey(m4, s)

reap_child(m, a, t) ==
    LET s == action_schedule(a)
        st == m.procs[a].wstatus
        m1 == [m EXCEPT
                 !.procs[a] = NoProc,
                 !.reaped = @ \cup {a},
                 !.failures = IF st # 0
                              THEN @ \cup {Base(m.actions[a].last_invocation, a)}
                              ELSE @,
                 !.actions[a] = [@ EXCEPT
                     !.pid = 0,
                     !.state = "enabled",
                     !.last_status = st,
                     !.cnt_failures = IF st # 0 THEN @ + 1 ELSE @]]
        m2 == IF st = 0
              THEN move_to_destinations(m1, s, a, action_destinations(a), {})
              ELSE m1
        m3 == lmapd_workspace_action_clean(m2, a)
        m4 == IF /\ next_action(a) # "none"
                 /\ sched_mode(s) = "sequential"
                 /\ m3.schedules[s].state # "suppressed"
                 /\ ~ m3.schedules[s].stop_running
              THEN action_exec(m3, s, next_action(a), t).m
              ELSE m3
    IN  schedule_survey(m4, s)

RECURSIVE reap_children(_, _, _)
reap_children(m, order, t) ==
    IF order = <<>> THEN m
    ELSE reap_children(reap_child(m, Head(order), t), Tail(order), t)

lmapd_cleanup(m, order, t) == reap_children(m, order, t)

(***************************************************************************)
(* execute_cb: walk the Schedules for a fired Event.                       *)
(***************************************************************************)
schedule_move(m, s) ==
    LET q == lmapd_workspace_schedule_move(
                 [incoming |-> m.incoming[s], active |-> m.active[s]],
                 AnyOrder(MetaBases(m.incoming[s])), {})
    IN  [m EXCEPT !.incoming[s] = q.incoming, !.active[s] = q.active]

\* variant: a Schedule started by a one-shot Event keeps the state that
\* schedule_exec gave it
execute_one_keep_state(m, s, e, t) ==
    LET sc == m.schedules[s]
        m1 == IF sc.state = "disabled" \/ sched_start(s) # e THEN m
              ELSE IF sc.state = "suppressed"
              THEN [m EXCEPT !.schedules[s].cnt_suppressions = @ + 1]
              ELSE IF sc.state = "running"
              THEN [m EXCEPT !.schedules[s].cnt_overlaps = @ + 1]
              ELSE schedule_exec(schedule_move(m, s), s, t)
    IN  IF sched_end(s) = e THEN schedule_kill(m1, s) ELSE m1

execute_one(m, s, e, t) ==
    LET sc == m.schedules[s]
        m1 == IF sc.state = "disabled" \/ sched_start(s) # e THEN m
              ELSE IF sc.state = "suppressed"
              THEN [m EXCEPT !.schedules[s].cnt_suppressions = @ + 1]
              ELSE IF sc.state = "running"
              THEN [m EXCEPT !.schedules[s].cnt_overlaps = @ + 1]
              ELSE LET m2 == schedule_exec(schedule_move(m, s), s, t)
                   IN  IF event_type(e) \in {"one_off", "immediate", "startup"}
                       THEN [m2 EXCEPT !.schedules[s].state = "disabled"]
                       ELSE m2
    IN  IF sched_end(s) = e THEN schedule_kill(m1, s) ELSE m1

RECURSIVE execute_list(_, _, _, _)
execute_list(m, scheds, e, t) ==
    IF scheds = <<>> THEN m
    ELSE execute_list(execute_one(m, Head(scheds), e, t), Tail(scheds), e, t)

execute_cb(m, e, t) == execute_list(m, ScheduleList, e, t)

\* variant: the Schedules are walked before the suppression rule is applied
fire_cb_execute_first(m, e, t) == suppress_cb(execute_cb(m, e, t), e)

\* fire_cb: the suppression rule first, then the Schedules
fire_cb(m, e, t) == execute_cb(suppress_cb(m, e), e, t)

(***************************************************************************)
(* The state machine.                                                      *)
(***************************************************************************)
InitSchedule ==
    [state |-> "enabled", stop_running |-> FALSE, cnt_invocations |-> 0,
     cnt_suppressions |-> 0, cnt_overlaps |-> 0, cnt_failures |-> 0,
     cnt_active_suppressions |-> 0, last_invocation |-> 0]

InitAction ==
    [state |-> "enabled", pid |-> 0, cnt_invocations |-> 0,
     cnt_suppressions |-> 0, cnt_overlaps |-> 0, cnt_failures |-> 0,
     cnt_active_suppressions |-> 0, last_invocation |-> 0,
     last_status |-> 0]

NoCallback ==
    [op |-> "none", ev |-> "none", killed |-> {}, forked |-> {},
     dispatched |-> {}, reaped |-> {}, pairs |-> {}, added |-> {},
     bad |-> {}]

\* the daemon processes that can be started on the run_path, and getpid()
Daemons == {"d1", "d2"}

DaemonPid(d) == IF d = "d1" THEN 201 ELSE 202

\* a pid left in the pid file by a daemon that is gone
StalePid == 300

\* main() inside the event loop of lmapd_run: the configuration was valid,
\* LMAPD_FLAG_RESTART is clear, no control signal was handled
InitMain ==
    [pc |-> "loop", restart |-> FALSE, valid |-> TRUE, reloads |-> 0, sig |-> 0]

\* no meta file, the child has not opened one, lmapd_cleanup has written no
\* end section
NoMeta == [exists |-> FALSE, sections |-> <<>>, step |-> 0, ended |-> <<>>]

\* a libevent timer that is not armed: the struct event pointer is NULL
NULL == -1

\* UINT<n>_MAX as the set of the bits that are set in it: what '*' stores in
\* a field of a calendar Event
Bits(n) == 0 .. (n - 1)

\* struct event as lmap_event_new leaves it: no type, no flags, every field 0
NoEvent ==
    [type |-> "none", start_set |-> FALSE, start |-> 0, interval |-> 0,
     months |-> {}, days_of_month |-> {}, days_of_week |-> {}, hours |-> {},
     minutes |-> {}, seconds |-> {}, offset_set |-> FALSE,
     timezone_offset |-> 0, spread_set |-> FALSE, random_spread |-> 0]

\* no timed Event: lmapd_run has armed nothing and the clock stands at 0
NoTimer ==
    [event |-> NoEvent, zone |-> 0, pc |-> "config", clock |-> 0, run |-> 0,
     start_event |-> NULL, trigger_event |-> NULL, fire_event |-> NULL,
     fires |-> {}]

\* struct lmap as lmap_new leaves it: no Events, Tasks, Schedules or
\* Suppressions, and lmap_valid not yet called
NoLmap ==
    [pc |-> "none", events |-> <<>>, tasks |-> <<>>, schedules |-> <<>>,
     supps |-> <<>>, valid |-> NULL]

\* the kinds of directory entries: regular file, directory, symbolic link,
\* FIFO
DirKinds == {"reg", "dir", "lnk", "fifo"}

\* no directory scan is in progress, and no result was delivered
NoDir ==
    [op |-> "none", tree |-> {}, before |-> {}, ret |-> 0, sent |-> {}]

\* no CSV file is open: nothing to write, nothing written, nothing read
NoCsv ==
    [pc |-> "none", delimiter |-> "nul", fields |-> <<>>, k |-> 0,
     file |-> <<>>, pos |-> 0, eof |-> FALSE, read |-> <<>>]

\* the runner's daemon d1 has written the pid file and is in the event loop
InitExt ==
    /\ pidfile = DaemonPid("d1")
    /\ daemons = [d \in Daemons |-> IF d = "d1" THEN "loop" ELSE "none"]
    /\ main = InitMain
    /\ sigchld = FALSE
    /\ meta = [a \in Actions |-> NoMeta]
    /\ timer = NoTimer
    /\ basedir = NoDir
    /\ lmap = NoLmap
    /\ csv = NoCsv

\* the configuration as read_config and lmap_valid leave it
InitRunner ==
    /\ schedules = [s \in Schedules |-> InitSchedule]
    /\ actions = [a \in Actions |-> InitAction]
    /\ supps = [p \in Supps |-> [state |-> "enabled"]]
    /\ procs = [a \in Actions |-> NoProc]
    /\ ws = [a \in Actions |-> {}]
    /\ incoming = [s \in Schedules |-> {}]
    /\ active = [s \in Schedules |-> {}]
    /\ fired = [n |-> 0, once |-> {}]
    /\ failures = {}
    /\ last = NoCallback

Init ==
    /\ cfg \in Configs
    /\ InitRunner
    /\ InitExt

Commit(m, op, e) ==
    /\ schedules' = m.schedules
    /\ actions' = m.actions
    /\ supps' = m.supps
    /\ procs' = m.procs
    /\ ws' = m.ws
    /\ incoming' = m.incoming
    /\ active' = m.active
    /\ failures' = m.failures
    /\ last' = [NoCallback EXCEPT !.op = op, !.ev = e, !.killed = m.killed,
                                   !.forked = m.forked,
                                   !.dispatched = m.dispatched,
                                   !.reaped = m.reaped]

\* the clock, in seconds: every Event firing happens one second after the
\* firing before it
now == fired.n

\* an Event's fire timer expires: a periodic Event fires again and again,
\* any other Event once
Fire(e) ==
    /\ fired.n < MaxFirings
    /\ e \notin fired.once
    /\ fired' = [n |-> fired.n + 1,
                  once |-> fired.once \cup
                      (IF event_type(e) = "periodic" THEN {} ELSE {e})]
    /\ Commit(fire_cb(Bundle, e, now + 1), "fire", e)
    /\ UNCHANGED cfg
    /\ UNCHANGED extVars

\* lmapd_sigchld_cb: reap every child that has exited
Cleanup ==
    /\ \E a \in Actions : procs[a].phase = "zombie"
    /\ \E order \in Orders({a \in Actions : procs[a].phase = "zombie"}) :
           Commit(lmapd_cleanup(Bundle, order, now), "cleanup", "none")
    /\ UNCHANGED <<cfg, fired>>
    /\ UNCHANGED extVars

\* the child writes the start of the meta file, creates the data file and
\* executes the program
ChildSetup(a) ==
    /\ procs[a].phase = "forked"
    /\ procs' = [procs EXCEPT ![a].phase = "exec"]
    /\ ws' = [ws EXCEPT ![a] = @ \cup
                  {MetaFile(Base(actions[a].last_invocation, a)),
                   DataFile(Base(actions[a].last_invocation, a))}]
    /\ UNCHANGED <<cfg, schedules, actions, supps, incoming, active, fired,
                   failures, last>>
    /\ UNCHANGED extVars

\* the child ends: exit(EXIT_FAILURE) when its setup fails, any exit status
\* of the program, or death by a SIGTERM it received
ChildExit(a) ==
    /\ procs[a].phase \in {"forked", "exec"}
    /\ \E st \in {0, EXIT_FAILURE, -SIGTERM} :
           /\ st = 0 => procs[a].phase = "exec"
           /\ st = -SIGTERM => procs[a].sigterm
           /\ procs' = [procs EXCEPT ![a].phase = "zombie", ![a].wstatus = st]
    /\ UNCHANGED <<cfg, schedules, actions, supps, ws, incoming, active,
                   fired, failures, last>>
    /\ UNCHANGED extVars

Next ==
    \/ \E e \in Events : Fire(e)
    \/ Cleanup
    \/ \E a \in Actions : ChildSetup(a)
    \/ \E a \in Actions : ChildExit(a)

Spec == Init /\ [][Next]_vars

(***************************************************************************)
(* The workspace on its own: the calls the runner makes into workspace.c,  *)
(* with every link and unlink free to fail.  WsChild is a child leaving    *)
(* its result pair in the Action workspace; WsReap is the completion flow  *)
(* of a successful Action (Action-move to each destination, Action-clean); *)
(* WsDispatch is the start of a Schedule (Schedule-move, then the cleaning *)
(* of its Action workspaces); WsCycleEnd is Schedule-clean.                *)
(***************************************************************************)
\* the sets of at most MaxFaults failing calls among `calls`
Faults(calls) ==
    {UNION {pick[i] : i \in 1..MaxFaults} :
        pick \in [1..MaxFaults -> {{}} \cup {{c} : c \in calls}]}

\* The failures Schedule-move can meet on one pair: a call fails only if
\* it is made (no second link after a failed link of the .data, no unlink
\* after a failed link; the rollback alone is for a .meta link that fails
\* because the name exists).
PairFaults(b) ==
    {{}, {<<"link", DataFile(b)>>}, {<<"link", MetaFile(b)>>},
     {<<"link", MetaFile(b)>>, <<"rollback", DataFile(b)>>},
     {<<"rollback", DataFile(b)>>},
     {<<"unlink", MetaFile(b)>>}, {<<"unlink", DataFile(b)>>},
     {<<"unlink", MetaFile(b)>>, <<"unlink", DataFile(b)>>}}

\* the sets of at most MaxFaults failures of one Schedule-move over the
\* complete pairs of _incoming
MoveFaults(dir) ==
    LET pairs == {b \in MetaBases(dir) : DataFile(b) \in dir}
    IN  {B \in {UNION {pick[b] : b \in pairs} :
                   pick \in [pairs -> UNION {PairFaults(b) : b \in pairs}]} :
            /\ Cardinality(B) <= MaxFaults
            /\ \A b \in pairs :
                  B \cap UNION PairFaults(b) \in PairFaults(b)}

WsUnchanged ==
    UNCHANGED <<cfg, schedules, supps, procs, failures, timer, lmap, csv, basedir,
                pidfile, daemons, main, sigchld, meta>>

WsChild(a) ==
    /\ actions[a].cnt_invocations < MaxStamps
    /\ ws[a] = {}
    /\ actions' = [actions EXCEPT ![a].cnt_invocations = @ + 1,
                                  ![a].last_invocation = @ + 1]
    /\ ws' = [ws EXCEPT ![a] =
                 {MetaFile(Base(actions[a].last_invocation + 1, a)),
                  DataFile(Base(actions[a].last_invocation + 1, a))}]
    /\ last' = [NoCallback EXCEPT !.op = "child", !.ev = a]
    /\ UNCHANGED <<incoming, active, fired>>
    /\ WsUnchanged

WsReap(a) ==
    /\ ws[a] # {}
    /\ \E bad \in Faults({"link"} \X ws[a]) :
          LET m == lmapd_workspace_action_clean(
                       move_to_destinations(Bundle, action_schedule(a), a,
                                            action_destinations(a), bad), a)
          IN  /\ ws' = m.ws
              /\ incoming' = m.incoming
              /\ active' = m.active
              /\ last' = [NoCallback EXCEPT !.op = "action_move", !.ev = a,
                                            !.bad = bad]
    /\ UNCHANGED <<fired, actions>>
    /\ WsUnchanged

WsDispatch(s) ==
    /\ \E order \in Orders(MetaBases(incoming[s])) :
       \E bad \in MoveFaults(incoming[s]) :
          LET q == lmapd_workspace_schedule_move(
                       [incoming |-> incoming[s], active |-> active[s]],
                       order, bad)
          IN  /\ incoming' = [incoming EXCEPT ![s] = q.incoming]
              /\ active' = [active EXCEPT ![s] = q.active]
              /\ ws' = clean_actions(Bundle, sched_actions(s)).ws
              /\ last' = [NoCallback EXCEPT
                              !.op = "schedule_move", !.ev = s,
                              !.bad = q.failed,
                              !.pairs = {b \in MetaBases(incoming[s]) :
                                            DataFile(b) \in incoming[s]},
                              !.added = q.active \ active[s]]
    /\ UNCHANGED <<fired, actions>>
    /\ WsUnchanged

WsCycleEnd(s) ==
    /\ active[s] # {}
    /\ \E bad \in Faults({"clean"} \X active[s]) :
          /\ active' = lmapd_workspace_schedule_clean(Bundle, s, bad).active
          /\ last' = [NoCallback EXCEPT !.op = "schedule_clean", !.ev = s]
    /\ UNCHANGED <<ws, incoming, fired, actions>>
    /\ WsUnchanged

WsInit == Init /\ cfg = [mode |-> "sequential", stop |-> "unset",
                         tagging |-> "schedule", start |-> "periodic",
                         sp1_start |-> "on", capability |-> Programs]

WsNext ==
    \/ \E a \in Actions : WsChild(a)
    \/ \E a \in Actions : WsReap(a)
    \/ \E s \in Schedules : WsDispatch(s)
    \/ \E s \in Schedules : WsCycleEnd(s)

SpecWs == WsInit /\ [][WsNext]_vars

(***************************************************************************)
(* Helpers of the properties.                                              *)
(***************************************************************************)
ActionsOf(s) == {sched_actions(s)[k] : k \in DOMAIN sched_actions(s)}

\* the Suppressions in state active whose match list matches the tags
ActiveMatching(tags) ==
    {p \in Supps : supps[p].state = "active" /\ big_tag_match(supp_match(p), tags)}

ResultFiles(a) ==
    {MetaFile(Base(actions[a].last_invocation, a)),
     DataFile(Base(actions[a].last_invocation, a))}

(***************************************************************************)
(* C1: in a sequential Schedule, when Action k is reaped with a non-zero   *)
(* status, the completion handler forks no child for Action k+1.           *)
(***************************************************************************)
C1_NoSuccessorAfterFailure ==
    \A a \in Actions :
        (/\ sched_mode(action_schedule(a)) = "sequential"
         /\ last.op = "cleanup"
         /\ a \in last.reaped
         /\ actions[a].last_status # 0
         /\ next_action(a) # "none")
        => next_action(a) \notin last.forked

(***************************************************************************)
(* C2 (as claimed): after every call of Schedule-move, whatever links and  *)
(* unlinks failed, every .meta in the Schedule's active area has its .data *)
(* in the active area.                                                     *)
(***************************************************************************)
C2_ActiveMetaHasData ==
    last.op = "schedule_move" =>
        \A b \in MetaBases(active[last.ev]) : DataFile(b) \in active[last.ev]

(***************************************************************************)
(* C2 (amended): every .meta that a call of Schedule-move links into the   *)
(* active area has its .data in the active area when the call returns,     *)
(* whatever links and unlinks failed.                                      *)
(***************************************************************************)
C2_PromotedMetaHasData ==
    last.op = "schedule_move" =>
        \A b \in MetaBases(last.added) : DataFile(b) \in active[last.ev]

\* a Schedule-move that promoted a pair while both of its unlinks failed
C2_Witness ==
    /\ last.op = "schedule_move"
    /\ \E b \in MetaBases(last.added) :
          /\ <<"unlink", MetaFile(b)>> \in last.bad
          /\ <<"unlink", DataFile(b)>> \in last.bad
          /\ {MetaFile(b), DataFile(b)} \subseteq active[last.ev]

C4_ResultsStagedInIncoming ==
    \A a \in Actions :
        \A k \in DOMAIN action_destinations(a) :
            LET d == action_destinations(a)[k]
            IN  (/\ d # action_schedule(a)
                 /\ last.op = "cleanup"
                 /\ a \in last.reaped
                 /\ actions[a].last_status = 0)
                => /\ ResultFiles(a) \subseteq incoming[d]
                   /\ ResultFiles(a) \cap active[d] = {}

(***************************************************************************)
(* C5: result files of an Action reaped with a non-zero status are never   *)
(* in any Schedule's _incoming directory or active area, and the           *)
(* completion handler leaves the workspace of every Action it reaps empty, *)
(* whatever the status.                                                    *)
(***************************************************************************)
C5_FailedResultsNeverLinked ==
    /\ \A s \in Schedules :
          \A f \in incoming[s] \cup active[s] : f[1] \notin failures
    /\ \A a \in Actions :
          (last.op = "cleanup" /\ a \in last.reaped /\ a \notin last.forked)
          => ws[a] = {}

\* an Action with a destination was reaped with a non-zero status and its
\* workspace is empty
C5_Witness ==
    /\ last.op = "cleanup"
    /\ \E a \in Actions :
          /\ a \in last.reaped
          /\ actions[a].last_status # 0
          /\ action_destinations(a) # <<>>
          /\ Base(actions[a].last_invocation, a) \in failures
          /\ ws[a] = {}

(***************************************************************************)
(* C6: at every firing of a Schedule's start Event at which some active    *)
(* Suppression matches one of the Schedule's suppression tags, the         *)
(* Schedule is not dispatched (schedule_exec is not called, so             *)
(* cnt_invocations is unchanged) and no Action of the Schedule is forked.  *)
(***************************************************************************)
C6_SuppressedScheduleNotDispatched ==
    \A s \in Schedules :
        (/\ last.op = "fire"
         /\ last.ev = sched_start(s)
         /\ ActiveMatching(sched_suppression_tags(s)) # {})
        => /\ s \notin last.dispatched
           /\ ActionsOf(s) \cap last.forked = {}

\* the start Event of a Schedule fired while a matching Suppression was
\* active, after the Schedule had been dispatched before
C6_Witness ==
    \E s \in Schedules :
        /\ last.op = "fire"
        /\ last.ev = sched_start(s)
        /\ ActiveMatching(sched_suppression_tags(s)) # {}
        /\ schedules[s].cnt_invocations > 0
        /\ schedules[s].cnt_suppressions > 0

(***************************************************************************)
(* C7: while a Suppression matching one of Action a's suppression tags is  *)
(* active, no callback forks a child for a.                                *)
(***************************************************************************)
C7_NoForkWhileSuppressed ==
    \A a \in Actions :
        a \in last.forked => ActiveMatching(action_suppression_tags(a)) = {}

(***************************************************************************)
(* C8 (as claimed): in every reachable state, for every Schedule and every *)
(* Action, cnt_active_suppressions equals the number of active             *)
(* Suppressions matching one of its suppression tags, and is never         *)
(* negative, whatever the Schedule's state (disabled included).            *)
(***************************************************************************)
C8_SuppressionBalance ==
    /\ \A s \in Schedules :
          schedules[s].cnt_active_suppressions
              = Cardinality(ActiveMatching(sched_suppression_tags(s)))
    /\ \A a \in Actions :
          actions[a].cnt_active_suppressions
              = Cardinality(ActiveMatching(action_suppression_tags(a)))

(***************************************************************************)
(* C8 (amended): in every reachable state, for every Schedule that is not  *)
(* in state disabled and every Action of such a Schedule,                  *)
(* cnt_active_suppressions equals the number of active Suppressions        *)
(* matching one of its suppression tags; for every Schedule and Action it  *)
(* is never negative.                                                      *)
(***************************************************************************)
C8_SuppressionBalanceUnlessDisabled ==
    /\ \A s \in Schedules :
          /\ schedules[s].cnt_active_suppressions >= 0
          /\ schedules[s].state # "disabled" =>
                schedules[s].cnt_active_suppressions
                    = Cardinality(ActiveMatching(sched_suppression_tags(s)))
    /\ \A a \in Actions :
          /\ actions[a].cnt_active_suppressions >= 0
          /\ (/\ schedules[action_schedule(a)].state # "disabled"
              /\ actions[a].state # "disabled") =>
                actions[a].cnt_active_suppressions
                    = Cardinality(ActiveMatching(action_suppression_tags(a)))

\* a matching Suppression has started and ended, the Schedule was dispatched
\* and the other matching Suppression started while it was running
C8_Witness ==
    \E s \in Schedules :
        /\ schedules[s].state = "running"
        /\ schedules[s].cnt_active_suppressions = 1
        /\ supps["sp1"].state = "active"
        /\ supps["sp2"].state = "enabled"
        /\ "e2" \in fired.once

(***************************************************************************)
(* C9: when a Suppression starts whose match list matches the suppression  *)
(* tags of a running Action: with stop_running true the Action is sent     *)
(* SIGTERM; with stop_running false the Action is not signalled and its    *)
(* state becomes suppressed.                                               *)
(***************************************************************************)
C9_StopRunningDecides ==
    [][\A p \in Supps : \A a \in Actions :
          (/\ supps[p].state = "enabled"
           /\ supps'[p].state = "active"
           /\ actions[a].state = "running"
           /\ big_tag_match(supp_match(p), action_suppression_tags(a)))
          => IF supp_stop_running(p)
             THEN a \in last'.killed
             ELSE /\ a \notin last'.killed
                  /\ actions'[a].state = "suppressed"]_vars

\* Suppression p with stop_running true, matching Schedule s, starts / ends
\* in the step
StopSuppStarts(p, s) ==
    /\ supp_stop_running(p)
    /\ big_tag_match(supp_match(p), sched_suppression_tags(s))
    /\ supps[p].state = "enabled"
    /\ supps'[p].state = "active"

StopSuppEnds(p, s) ==
    /\ supp_stop_running(p)
    /\ big_tag_match(supp_match(p), sched_suppression_tags(s))
    /\ supps[p].state = "active"
    /\ supps'[p].state = "enabled"

(***************************************************************************)
(* C10 (as claimed): for a Suppression with stop_running true matching     *)
(* Schedule s while s is running an Action: right after the start firing   *)
(* the Action has received SIGTERM, s.state = suppressed and               *)
(* s.cnt_active_suppressions = 1; right after the end firing s.state =     *)
(* enabled and s.cnt_active_suppressions = 0.                              *)
(***************************************************************************)
C10_StopRunningScenario ==
    [][\A p \in Supps : \A s \in Schedules :
          /\ (StopSuppStarts(p, s) /\ schedules[s].state = "running")
             => /\ \A a \in ActionsOf(s) :
                      actions[a].state = "running" => a \in last'.killed
                /\ schedules'[s].state = "suppressed"
                /\ schedules'[s].cnt_active_suppressions = 1
          /\ (StopSuppEnds(p, s) /\ schedules[s].state # "disabled")
             => /\ schedules'[s].state = "enabled"
                /\ schedules'[s].cnt_active_suppressions = 0]_vars

(***************************************************************************)
(* C10 (amended): for a Suppression with stop_running true matching        *)
(* Schedule s while s is running an Action: right after the start firing   *)
(* every running Action of s has received SIGTERM, s.state is still        *)
(* running and s.cnt_active_suppressions is one higher than before (1 when *)
(* no other matching Suppression is active); right after the end firing    *)
(* s.cnt_active_suppressions is one lower (0 when no other matching        *)
(* Suppression is active) and s.state is enabled if s was suppressed and   *)
(* the count reached 0, and unchanged otherwise.                           *)
(***************************************************************************)
C10_StopRunningSteps ==
    [][\A p \in Supps : \A s \in Schedules :
          /\ (StopSuppStarts(p, s) /\ schedules[s].state = "running")
             => /\ \A a \in ActionsOf(s) :
                      actions[a].state = "running"
                      => /\ a \in last'.killed
                         /\ procs[a].phase \in {"forked", "exec"}
                            => procs'[a].sigterm
                /\ schedules'[s].state = "running"
                /\ schedules'[s].cnt_active_suppressions
                       = schedules[s].cnt_active_suppressions + 1
                /\ schedules'[s].cnt_active_suppressions
                       = Cardinality(ActiveMatching(sched_suppression_tags(s))) + 1
          /\ (StopSuppEnds(p, s) /\ schedules[s].state # "disabled")
             => /\ schedules'[s].cnt_active_suppressions
                       = schedules[s].cnt_active_suppressions - 1
                /\ schedules'[s].cnt_active_suppressions
                       = Cardinality(ActiveMatching(sched_suppression_tags(s))) - 1
                /\ schedules'[s].state
                       = IF /\ schedules[s].state = "suppressed"
                            /\ schedules'[s].cnt_active_suppressions = 0
                         THEN "enabled" ELSE schedules[s].state]_vars

\* the Suppression with stop_running true started while the Schedule was
\* running an Action, the Action died of the SIGTERM and was reaped, and
\* the Suppression has ended
C10_Witness ==
    /\ supp_stop_running("sp1")
    /\ last.op = "fire"
    /\ last.ev = supp_end("sp1")
    /\ supps["sp1"].state = "enabled"
    /\ \E s \in Schedules :
          /\ big_tag_match(supp_match("sp1"), sched_suppression_tags(s))
          /\ schedules[s].state = "enabled"
          /\ schedules[s].cnt_active_suppressions = 0
          /\ schedules[s].stop_running
          /\ \E a \in ActionsOf(s) : actions[a].last_status = -SIGTERM

(***************************************************************************)
(* C11: for every Schedule and every execution mode, each firing of its    *)
(* start Event increments exactly one counter, chosen by the state the     *)
(* Schedule has when execute_cb looks at it: cnt_invocations if enabled,   *)
(* cnt_suppressions if suppressed, cnt_overlaps if running; nothing else   *)
(* changes the three counters.                                             *)
(***************************************************************************)
C11_OneCounterPerStartFiring ==
    [][\A s \in Schedules :
          LET st == suppress_cb(Bundle, last'.ev).schedules[s].state
              inv == schedules'[s].cnt_invocations - schedules[s].cnt_invocations
              sup == schedules'[s].cnt_suppressions - schedules[s].cnt_suppressions
              ovl == schedules'[s].cnt_overlaps - schedules[s].cnt_overlaps
          IN  IF fired'.n # fired.n /\ last'.ev = sched_start(s)
              THEN <<inv, sup, ovl>> =
                       <<IF st = "enabled" THEN 1 ELSE 0,
                         IF st = "suppressed" THEN 1 ELSE 0,
                         IF st = "running" THEN 1 ELSE 0>>
              ELSE <<inv, sup, ovl>> = <<0, 0, 0>>]_vars

(***************************************************************************)
(* C12: in every reachable state every Schedule has                        *)
(* cnt_failures <= cnt_invocations: the failure counter moves at most once *)
(* per invocation cycle, however many Actions failed and whatever          *)
(* suppressions and overlapping firings occurred.                          *)
(***************************************************************************)
C12_FailuresAtMostInvocations ==
    \A s \in Schedules :
        schedules[s].cnt_failures <= schedules[s].cnt_invocations

\* a cycle of s1 in which both Actions failed and a firing overlapped has
\* been counted, once
C12_Witness ==
    /\ schedules["s1"].cnt_failures = 1
    /\ schedules["s1"].cnt_invocations = 1
    /\ schedules["s1"].cnt_overlaps >= 1
    /\ \A a \in Actions : actions[a].cnt_failures >= 1

(***************************************************************************)
(* C13: in a sequential Schedule the child of Action k+1 is forked only by *)
(* the completion handler that has reaped Action k, and at most one Action *)
(* of the Schedule has a live child (pid # 0) at any time.                 *)
(***************************************************************************)
C13_SequentialOneLiveChild ==
    \A s \in Schedules :
        sched_mode(s) = "sequential" =>
            /\ Cardinality({a \in ActionsOf(s) : actions[a].pid # 0}) <= 1
            /\ Cardinality({a \in ActionsOf(s) :
                               procs[a].phase # "none"}) <= 1
            /\ \A a \in ActionsOf(s) :
                   (next_action(a) # "none" /\ next_action(a) \in last.forked)
                   => (last.op = "cleanup" /\ a \in last.reaped)

\* the completion handler reaped a1 and forked a2, whose child is alive
C13_Witness ==
    /\ sched_mode("s1") = "sequential"
    /\ last.op = "cleanup"
    /\ "a1" \in last.reaped
    /\ "a2" \in last.forked
    /\ actions["a1"].pid = 0
    /\ actions["a2"].pid # 0
    /\ procs["a2"].phase \in {"forked", "exec"}

\* Schedule s has execution mode parallel and an immediate start Event
ParallelImmediate(s) ==
    sched_mode(s) = "parallel" /\ event_type(sched_start(s)) = "immediate"

\* the step is the firing of s's start Event, it dispatches s, and
\* execute_cb finds none of s's Actions suppressed
DispatchesAll(s) ==
    /\ fired'.n # fired.n
    /\ last'.ev = sched_start(s)
    /\ s \in last'.dispatched
    /\ \A a \in ActionsOf(s) :
           suppress_cb(Bundle, last'.ev).actions[a].state = "enabled"

\* after the step every Action of s has run and been reaped with status 0
AllReapedOk(s) ==
    \A a \in ActionsOf(s) :
        /\ actions'[a].cnt_invocations >= 1
        /\ actions'[a].pid = 0
        /\ procs'[a].phase = "none"
        /\ actions'[a].last_status = 0

ProcessAlive(pid) ==
    \E d \in Daemons :
        DaemonPid(d) = pid /\ daemons[d] \notin {"none", "refused", "exited"}

lmapd_pid_read == IF pidfile > 0 /\ ProcessAlive(pidfile) THEN pidfile ELSE 0

lmapd_pid_check(d) == lmapd_pid_read = DaemonPid(d)

PidUnchanged ==
    UNCHANGED <<runnerVars, main, sigchld, meta, timer, lmap, csv, basedir>>

\* what lmapd_pid_write leaves alone; last.bad records the daemons whose
\* pid file could not be created or written
PidWriteUnchanged ==
    UNCHANGED <<cfg, schedules, actions, supps, procs, ws, incoming, active,
                fired, failures, main, sigchld, meta, timer, lmap, csv,
                basedir>>

\* a daemon process is started on the run_path
DaemonStart(d) ==
    /\ daemons[d] = "none"
    /\ daemons' = [daemons EXCEPT ![d] = "started"]
    /\ UNCHANGED pidfile
    /\ PidUnchanged

\* pid = lmapd_pid_read(lmapd); if (pid) exit(EXIT_FAILURE);
DaemonPidRead(d) ==
    /\ daemons[d] = "started"
    /\ daemons' = [daemons EXCEPT ![d] =
                      IF lmapd_pid_read # 0 THEN "refused" ELSE "checked"]
    /\ UNCHANGED pidfile
    /\ PidUnchanged

\* lmapd_pid_write, first half: fopen(pidfile, "w+") truncates the file; if
\* it fails main() goes on without a pid file
DaemonPidOpen(d) ==
    /\ daemons[d] = "checked"
    /\ \E ok \in BOOLEAN :
           /\ daemons' = [daemons EXCEPT ![d] = IF ok THEN "opened" ELSE "config"]
           /\ pidfile' = IF ok THEN 0 ELSE pidfile
           /\ last' = IF ok THEN last ELSE [last EXCEPT !.bad = @ \cup {d}]
    /\ PidWriteUnchanged

\* lmapd_pid_write, second half: fprintf of getpid(), fflush, fclose; when
\* the write fails the file stays empty, and main() goes on as well
DaemonPidWrite(d) ==
    /\ daemons[d] = "opened"
    /\ daemons' = [daemons EXCEPT ![d] = "config"]
    /\ \E ok \in BOOLEAN :
           /\ pidfile' = IF ok THEN DaemonPid(d) ELSE pidfile
           /\ last' = IF ok THEN last ELSE [last EXCEPT !.bad = @ \cup {d}]
    /\ PidWriteUnchanged

\* read_config and lmap_valid: on to lmapd_run, or exit(EXIT_FAILURE)
DaemonConfig(d) ==
    /\ daemons[d] = "config"
    /\ \E valid \in BOOLEAN :
           daemons' = [daemons EXCEPT ![d] = IF valid THEN "loop" ELSE "atexit"]
    /\ UNCHANGED pidfile
    /\ PidUnchanged

\* the event loop ends and main() calls exit
DaemonShutdown(d) ==
    /\ daemons[d] = "loop"
    /\ daemons' = [daemons EXCEPT ![d] = "atexit"]
    /\ UNCHANGED pidfile
    /\ PidUnchanged

\* atexit_cb: if (lmapd_pid_check(lmapd)) ...
DaemonExitCheck(d) ==
    /\ daemons[d] = "atexit"
    /\ daemons' = [daemons EXCEPT ![d] =
                      IF lmapd_pid_check(d) THEN "removing" ELSE "exited"]
    /\ UNCHANGED pidfile
    /\ PidUnchanged

\* ... lmapd_pid_remove(lmapd)
DaemonExitRemove(d) ==
    /\ daemons[d] = "removing"
    /\ daemons' = [daemons EXCEPT ![d] = "exited"]
    /\ pidfile' = 0
    /\ PidUnchanged

PidInit ==
    /\ cfg = [mode |-> "sequential", stop |-> "unset", tagging |-> "schedule",
              start |-> "periodic", sp1_start |-> "on",
              capability |-> Programs]
    /\ InitRunner
    /\ pidfile \in {0, StalePid}
    /\ daemons = [d \in Daemons |-> "none"]
    /\ main = InitMain
    /\ sigchld = FALSE
    /\ meta = [a \in Actions |-> NoMeta]
    /\ timer = NoTimer
    /\ basedir = NoDir
    /\ lmap = NoLmap
    /\ csv = NoCsv

PidNext ==
    \/ \E d \in Daemons : DaemonStart(d)
    \/ \E d \in Daemons : DaemonPidRead(d)
    \/ \E d \in Daemons : DaemonPidOpen(d)
    \/ \E d \in Daemons : DaemonPidWrite(d)
    \/ \E d \in Daemons : DaemonConfig(d)
    \/ \E d \in Daemons : DaemonShutdown(d)
    \/ \E d \in Daemons : DaemonExitCheck(d)
    \/ \E d \in Daemons : DaemonExitRemove(d)

SpecPid == PidInit /\ [][PidNext]_vars

(***************************************************************************)
(* C15: for any interleaving of the startup steps of two daemon processes  *)
(* on one run_path at most one of them is in the event loop, and a daemon  *)
(* that reads a pid file naming a live process refuses to start.           *)
(***************************************************************************)
C15_OneDaemonPerRunPath ==
    [][/\ Cardinality({d \in Daemons : daemons'[d] = "loop"}) <= 1
       /\ \A d \in Daemons :
              (/\ daemons[d] = "started"
               /\ daemons'[d] # "started"
               /\ pidfile > 0
               /\ ProcessAlive(pidfile))
              => daemons'[d] = "refused"]_vars

(***************************************************************************)
(* Control signals: the handlers of signals.c, lmapd_stop, lmapd_restart   *)
(* and lmapd_killall of runner.c, and the do-while loop of main().  The    *)
(* runner runs while main() is inside event_base_dispatch; a control       *)
(* signal's handler breaks the loop, lmapd_run returns and frees the Lmap  *)
(* model, and main() tests LMAPD_FLAG_RESTART.  Children of a freed        *)
(* configuration belong to no Action any more (find_action_by_pid finds    *)
(* nothing for them), so they leave the model at the reload.               *)
(***************************************************************************)
ControlSignals == {SIGHUP, SIGINT, SIGTERM}

RECURSIVE kill_schedules(_, _)
kill_schedules(m, scheds) ==
    IF scheds = <<>> THEN m
    ELSE kill_schedules(schedule_kill(m, Head(scheds)), Tail(scheds))

lmapd_killall(m) == kill_schedules(m, ScheduleList)

\* variant: the shutdown handler leaves LMAPD_FLAG_RESTART as it is
lmapd_stop_keep_flag(mn) == [mn EXCEPT !.pc = "broken"]

lmapd_stop(mn) == [mn EXCEPT !.restart = FALSE, !.pc = "broken"]

lmapd_restart(mn) == [mn EXCEPT !.restart = TRUE, !.pc = "broken"]

\* lmapd_sigint_cb, lmapd_sigterm_cb, lmapd_sighub_cb
CtlSignal(sig) ==
    /\ main.pc = "loop"
    /\ sig = SIGHUP => main.reloads < MaxReloads
    /\ main' = [(IF sig = SIGHUP THEN lmapd_restart(main) ELSE lmapd_stop(main))
                   EXCEPT !.sig = sig]
    /\ Commit(lmapd_killall(Bundle), "signal", "none")
    /\ UNCHANGED <<cfg, fired, timer, lmap, csv, basedir, pidfile, daemons, sigchld,
                   meta>>

\* event_base_dispatch returns, lmapd_run frees the Lmap model and returns,
\* and main() tests the restart flag: sleep and loop, or exit
CtlReturn ==
    /\ main.pc = "broken"
    /\ main' = [main EXCEPT !.pc = IF main.restart THEN "config" ELSE "exited",
                            !.reloads = IF main.restart THEN @ + 1 ELSE @]
    /\ UNCHANGED <<runnerVars, timer, lmap, csv, basedir, pidfile, daemons, sigchld,
                   meta>>

\* read_config and lmap_valid at the top of the loop, then
\* lmapd_workspace_init and lmapd_run with the fresh configuration: new
\* Schedules, Actions and Suppressions, every Event armed again, the files
\* of the queue as they were
CtlConfig ==
    /\ main.pc = "config"
    /\ \E valid \in BOOLEAN :
           main' = [main EXCEPT !.valid = valid,
                                !.pc = IF valid THEN "loop" ELSE "exited"]
    /\ schedules' = [s \in Schedules |-> InitSchedule]
    /\ actions' = [a \in Actions |-> InitAction]
    /\ supps' = [p \in Supps |-> [state |-> "enabled"]]
    /\ procs' = [a \in Actions |-> NoProc]
    /\ fired' = [fired EXCEPT !.once = {}]
    /\ last' = [NoCallback EXCEPT !.op = "config"]
    /\ UNCHANGED <<cfg, ws, incoming, active, failures, timer, lmap, csv, basedir,
                   pidfile, daemons, sigchld, meta>>

\* the Event that fires in the control model: the start of s1
CtlEvents == {"e1"}

CtlFire(e) == main.pc = "loop" /\ Fire(e)

CtlCleanup == main.pc = "loop" /\ Cleanup

CtlInit ==
    /\ cfg = [mode |-> "parallel", stop |-> "true", tagging |-> "action",
              start |-> "periodic", sp1_start |-> "on",
              capability |-> Programs]
    /\ InitRunner
    /\ InitExt

CtlNext ==
    \/ \E sig \in ControlSignals : CtlSignal(sig)
    \/ CtlReturn
    \/ CtlConfig
    \/ \E e \in CtlEvents : CtlFire(e)
    \/ CtlCleanup
    \/ \E a \in Actions : ChildSetup(a)
    \/ \E a \in Actions : ChildExit(a)

SpecCtl == CtlInit /\ [][CtlNext]_vars

\* the Actions Action-kill signals: state running with a pid
RunningActions == {a \in Actions : actions[a].state = "running" /\ actions[a].pid # 0}

(***************************************************************************)
(* C16 (as claimed): after a control signal broke the event loop, the      *)
(* daemon re-reads the configuration and re-enters the event loop if and   *)
(* only if the signal was HUP; INT and TERM send SIGTERM to every running  *)
(* Action and lead to exit, also after earlier reloads.                    *)
(***************************************************************************)
C16_ReloadIffHup ==
    [][/\ (main.pc = "loop" /\ main'.pc = "broken" /\ main'.sig # SIGHUP) =>
              /\ last'.killed = RunningActions
              /\ \A a \in RunningActions :
                     procs[a].phase \in {"forked", "exec"} => procs'[a].sigterm
       /\ (main.pc = "broken" /\ main'.pc # "broken") =>
              /\ main.sig = SIGHUP <=> main'.pc = "config"
              /\ main.sig # SIGHUP => main'.pc = "exited"
       /\ (main.pc = "config" /\ main'.pc # "config") =>
              (main.sig = SIGHUP <=> main'.pc = "loop")]_vars

(***************************************************************************)
(* C16 (amended): after a control signal broke the event loop, the daemon  *)
(* re-reads the configuration if and only if the signal was HUP, and       *)
(* re-enters the event loop if and only if in addition the configuration   *)
(* it read is valid (otherwise it exits); INT and TERM send SIGTERM to     *)
(* every running Action and lead to exit, also after earlier reloads.      *)
(***************************************************************************)
C16_ReloadIffHupAndValid ==
    [][/\ (main.pc = "loop" /\ main'.pc = "broken" /\ main'.sig # SIGHUP) =>
              /\ last'.killed = RunningActions
              /\ \A a \in RunningActions :
                     procs[a].phase \in {"forked", "exec"} => procs'[a].sigterm
       /\ (main.pc = "broken" /\ main'.pc # "broken") =>
              /\ main.sig = SIGHUP <=> main'.pc = "config"
              /\ main.sig # SIGHUP => main'.pc = "exited"
       /\ (main.pc = "config" /\ main'.pc # "config") =>
              /\ main.sig = SIGHUP
              /\ main'.pc = "loop" <=> main'.valid
              /\ main'.pc = "exited" <=> ~ main'.valid
       /\ (main.pc # "loop" /\ main'.pc = "loop") =>
              (main.pc = "config" /\ main.sig = SIGHUP)]_vars

\* after a reload, a shutdown signal found an Action running, signalled it,
\* and the process has exited
C16_Witness ==
    /\ main.reloads >= 1
    /\ main.sig \in {SIGINT, SIGTERM}
    /\ main.pc = "exited"
    /\ last.op = "signal"
    /\ last.killed # {}
    /\ \E a \in last.killed : procs[a].sigterm

(***************************************************************************)
(* Reaping: lmapd_cleanup is called by lmapd_sigchld_cb and by nothing     *)
(* else.  lmapd_run registers one signal event per entry of its table; the *)
(* branch that would add a persistent one-second timer is taken for an     *)
(* entry without a signal number, and the table has none.  A child's exit  *)
(* raises a CHLD notification unless the environment drops it (the signal  *)
(* event could not be added, or no handler is installed at that moment).   *)
(***************************************************************************)
ReapChildExit(a) ==
    /\ procs[a].phase \in {"forked", "exec"}
    /\ \E st \in {0, EXIT_FAILURE, -SIGTERM} :
           /\ st = 0 => procs[a].phase = "exec"
           /\ st = -SIGTERM => procs[a].sigterm
           /\ procs' = [procs EXCEPT ![a].phase = "zombie", ![a].wstatus = st]
    /\ \E notified \in BOOLEAN : sigchld' = (sigchld \/ notified)
    /\ UNCHANGED <<cfg, schedules, actions, supps, ws, incoming, active,
                   fired, failures, last, timer, lmap, csv, basedir, pidfile, daemons,
                   main, meta>>

\* the event loop runs lmapd_sigchld_cb for the pending notification: the
\* waitpid loop reaps every child that has exited by now
ReapSigchld ==
    /\ sigchld
    /\ sigchld' = FALSE
    /\ \E order \in Orders({a \in Actions : procs[a].phase = "zombie"}) :
           Commit(lmapd_cleanup(Bundle, order, now), "cleanup", "none")
    /\ UNCHANGED <<cfg, fired, timer, lmap, csv, basedir, pidfile, daemons, main, meta>>

ReapInit ==
    /\ cfg = [mode |-> "parallel", stop |-> "unset", tagging |-> "schedule",
              start |-> "periodic", sp1_start |-> "on",
              capability |-> Programs]
    /\ InitRunner
    /\ InitExt

ReapNext ==
    \/ \E e \in Events : Fire(e)
    \/ \E a \in Actions : ChildSetup(a)
    \/ \E a \in Actions : ReapChildExit(a)
    \/ ReapSigchld

\* the event loop runs the callback of a pending signal event
SpecReap == ReapInit /\ [][ReapNext]_vars /\ WF_vars(ReapSigchld)

(***************************************************************************)
(* C17: every child that has exited is eventually reaped by the completion *)
(* flow (pid reset to 0, last_status set), also when no CHLD notification  *)
(* is delivered after its exit.                                            *)
(***************************************************************************)
C17_ExitedChildEventuallyReaped ==
    \A a \in Actions :
        (procs[a].phase = "zombie") ~> (procs[a].phase # "zombie")

(***************************************************************************)
(* The meta file of an invocation.  The child writes the start section in  *)
(* lmapd_workspace_action_meta_add_start: open with O_CREAT | O_TRUNC,     *)
(* then a buffered stream that reaches the file at fclose.  The parent     *)
(* appends the end section in lmapd_workspace_action_meta_add_end: open    *)
(* with O_APPEND and without O_CREAT, so a missing file gets no end        *)
(* section.  meta[a].step is how far the child got (0 nothing, 1 file      *)
(* opened, 2 start section written); meta[a].ended is what the file held   *)
(* right after the last meta_add_end for the Action.                       *)
(***************************************************************************)
lmapd_workspace_action_meta_add_start(f) ==
    IF f.exists THEN [f EXCEPT !.sections = Append(@, "start"), !.step = 2]
    ELSE [f EXCEPT !.step = 2]

lmapd_workspace_action_meta_add_end(f) ==
    IF f.exists THEN Append(f.sections, "end") ELSE <<>>

\* the child opens (creates, truncates) the meta file
MetaOpen(a) ==
    /\ procs[a].phase = "forked"
    /\ meta[a].step = 0
    /\ meta' = [meta EXCEPT ![a] = [@ EXCEPT !.exists = TRUE,
                                             !.sections = <<>>,
                                             !.step = 1]]
    /\ ws' = [ws EXCEPT ![a] = @ \cup
                  {MetaFile(Base(actions[a].last_invocation, a))}]
    /\ UNCHANGED <<cfg, schedules, actions, supps, procs, incoming, active,
                   fired, failures, last, timer, lmap, csv, basedir, pidfile, daemons,
                   main, sigchld>>

\* the child's fclose puts the start section into the file it opened
MetaWrite(a) ==
    /\ procs[a].phase = "forked"
    /\ meta[a].step = 1
    /\ meta' = [meta EXCEPT ![a] = lmapd_workspace_action_meta_add_start(@)]
    /\ UNCHANGED <<runnerVars, timer, lmap, csv, basedir, pidfile, daemons, main,
                   sigchld>>

\* the child creates the data file and executes the program
MetaData(a) ==
    /\ procs[a].phase = "forked"
    /\ meta[a].step = 2
    /\ procs' = [procs EXCEPT ![a].phase = "exec"]
    /\ ws' = [ws EXCEPT ![a] = @ \cup
                  {DataFile(Base(actions[a].last_invocation, a))}]
    /\ UNCHANGED <<cfg, schedules, actions, supps, incoming, active, fired,
                   failures, last, extVars>>

\* fire_cb: schedule_exec cleans the workspace of every Action of a
\* dispatched Schedule; a forked child starts at step 0
MetaFire(e) ==
    /\ fired.n < MaxFirings
    /\ e \notin fired.once
    /\ fired' = [n |-> fired.n + 1,
                  once |-> fired.once \cup
                      (IF event_type(e) = "periodic" THEN {} ELSE {e})]
    /\ Commit(fire_cb(Bundle, e, now + 1), "fire", e)
    /\ meta' = [a \in Actions |->
                   LET cleaned == action_schedule(a) \in last'.dispatched
                   IN  [meta[a] EXCEPT
                          !.exists = IF cleaned THEN FALSE ELSE @,
                          !.sections = IF cleaned THEN <<>> ELSE @,
                          !.step = IF a \in last'.forked THEN 0 ELSE @]]
    /\ UNCHANGED <<cfg, timer, lmap, csv, basedir, pidfile, daemons, main, sigchld>>

\* lmapd_cleanup: meta_add_end for every reaped Action, then the move and
\* the cleaning of its workspace
MetaCleanup ==
    /\ \E a \in Actions : procs[a].phase = "zombie"
    /\ \E order \in Orders({a \in Actions : procs[a].phase = "zombie"}) :
           Commit(lmapd_cleanup(Bundle, order, now), "cleanup", "none")
    /\ meta' = [a \in Actions |->
                   IF a \in last'.reaped
                   THEN [exists |-> FALSE, sections |-> <<>>, step |-> 0,
                         ended |-> lmapd_workspace_action_meta_add_end(meta[a])]
                   ELSE [meta[a] EXCEPT
                           !.step = IF a \in last'.forked THEN 0 ELSE @]]
    /\ UNCHANGED <<cfg, fired, timer, lmap, csv, basedir, pidfile, daemons, main,
                   sigchld>>

MetaInit ==
    /\ cfg = [mode |-> "parallel", stop |-> "true", tagging |-> "action",
              start |-> "periodic", sp1_start |-> "on",
              capability |-> Programs]
    /\ InitRunner
    /\ InitExt

MetaNext ==
    \/ \E e \in Events : MetaFire(e)
    \/ MetaCleanup
    \/ \E a \in Actions : MetaOpen(a)
    \/ \E a \in Actions : MetaWrite(a)
    \/ \E a \in Actions : MetaData(a)
    \/ \E a \in Actions : ChildExit(a)

SpecMeta == MetaInit /\ [][MetaNext]_vars

(***************************************************************************)
(* C18: the meta file of every Action invocation holds one start section   *)
(* followed by at most one end section: what lmapd_cleanup leaves after    *)
(* writing an end section is start, end, never an end section alone or a   *)
(* second one, and a file with any section in it begins with start.        *)
(***************************************************************************)
C18_MetaStartThenEnd ==
    \A a \in Actions :
        /\ meta[a].ended \in {<<>>, <<"start", "end">>}
        /\ meta[a].sections \in {<<>>, <<"start">>, <<"start", "end">>}

(***************************************************************************)
(* The timers of a timed Event.  lmapd_run arms the start timer of the     *)
(* Event, startup_cb arms its trigger timer, the trigger callback arms the *)
(* fire timer and fire_cb runs the Schedules.  The clock counts seconds    *)
(* since the epoch and moves only when no timer is due.  The Event has no  *)
(* end time; it is e1, the start of s1.  A failed assertion ends the       *)
(* daemon: pc becomes "aborted".                                           *)
(***************************************************************************)
MaxTime == 4       \* periodic Events: start and daemon start lie in 0 .. MaxTime
MaxInterval == 3   \* periodic Events: interval in 1 .. MaxInterval
MaxDays == 1       \* calendar Events: the clock runs over that many days

SecondsPerDay == 86400

\* the time zone the daemon's host is set to, in seconds east of UTC
Zones == {0, 3600, 7200}

\* the timeout lmapd_run gives the start timer of an Event, nw being the
\* value of time(NULL); the values stay far below the width of uint32_t
start_timeout(event, nw) ==
    IF event.type = "periodic" /\ event.start_set
    THEN IF nw > event.start
         THEN LET delta == (nw - event.start) \div event.interval
              IN  (event.start + (delta + 1) * event.interval) - nw
         ELSE event.start - nw
    ELSE 0

TimerUnchanged ==
    UNCHANGED <<pidfile, daemons, main, sigchld, meta, lmap, csv, basedir>>

\* event_add with the timeout lmapd_run computed for a one_off Event: a
\* timeout of 0 is due at once; a negative timeout is due at once or is
\* refused, the timer then never expiring
event_add_one_off(tm, ok) ==
    IF tm.event.start - tm.clock < 0 /\ ~ok THEN tm
    ELSE [tm EXCEPT !.fire_event = tm.clock]

\* lmapd_run: the loop over the Events arms the start timer of a periodic or
\* calendar Event; a one_off Event with now < start gets a warning and no
\* timer, any other one_off Event gets its fire timer with start - now
TimerRun ==
    /\ timer.pc = "config"
    /\ \E ok \in BOOLEAN :
           timer' =
               IF timer.event.type = "one_off"
               THEN IF timer.clock < timer.event.start
                    THEN [timer EXCEPT !.pc = "loop", !.run = timer.clock]
                    ELSE event_add_one_off(
                             [timer EXCEPT !.pc = "loop", !.run = timer.clock],
                             ok)
               ELSE [timer EXCEPT
                       !.pc = "loop",
                       !.run = IF timer.event.type = "periodic"
                                    /\ timer.event.start_set
                               THEN timer.clock ELSE @,
                       !.start_event =
                           timer.clock
                               + start_timeout(timer.event, timer.clock)]
    /\ UNCHANGED runnerVars
    /\ TimerUnchanged

\* a second passes in the event loop while no timer is due
TimerTick ==
    /\ timer.pc = "loop"
    /\ timer.clock \notin
           {timer.start_event, timer.trigger_event, timer.fire_event}
    /\ timer.clock < SecondsPerDay * MaxDays
    /\ timer' = [timer EXCEPT !.clock = @ + 1]
    /\ UNCHANGED runnerVars
    /\ TimerUnchanged

\* the values rand_interval(0, random_spread) may return for the Event
Spreads(event) ==
    IF event.spread_set THEN 0 .. event.random_spread ELSE {0}

\* add_random_spread: the seconds added to a timeout of 0, spread being the
\* value rand_interval returned
add_random_spread(event, spread) == IF event.spread_set THEN spread ELSE 0

\* event_gaga for the fire timer: assert(*ev == NULL), then a new timer
\* with timeout tv is stored in *ev
event_gaga(tm, tv) ==
    IF tm.fire_event # NULL THEN [tm EXCEPT !.pc = "aborted"]
    ELSE [tm EXCEPT !.fire_event = tm.clock + tv]

\* trigger_periodic_cb without an end time: the fire timer is armed with a
\* timeout of 0 plus the random spread
trigger_periodic_cb(tm, spread) ==
    event_gaga(tm, add_random_spread(tm.event, spread))

\* startup_cb: a periodic Event gets a persistent trigger timer of one
\* interval and is triggered at once, a calendar Event gets a trigger timer
\* with a timeout of 0; the start timer is freed
startup_cb(tm, spread) ==
    LET armed ==
            IF tm.event.type = "periodic"
            THEN trigger_periodic_cb(
                     [tm EXCEPT !.trigger_event = tm.clock + tm.event.interval],
                     spread)
            ELSE IF tm.event.type = "calendar"
            THEN [tm EXCEPT !.trigger_event = tm.clock]
            ELSE tm
    IN  [armed EXCEPT !.start_event = NULL]

TimerStartup ==
    /\ timer.pc = "loop"
    /\ timer.start_event = timer.clock
    /\ \E spread \in Spreads(timer.event) :
           timer' = startup_cb(timer, spread)
    /\ UNCHANGED runnerVars
    /\ TimerUnchanged

\* localtime() on a host whose zone is that many seconds east of UTC, for
\* the times of January 1970: the epoch was a Thursday
localtime(t, zone) ==
    LET l == t + zone
    IN  [tm_sec |-> l % 60,
         tm_min |-> (l \div 60) % 60,
         tm_hour |-> (l \div 3600) % 24,
         tm_mday |-> 1 + (l \div SecondsPerDay),
         tm_mon |-> 0,
         tm_wday |-> (4 + (l \div SecondsPerDay)) % 7]

\* lmap_event_calendar_match: -1 for an Event that is not a calendar Event,
\* 0 when a field of the broken-down time is not in the Event's set for it,
\* 1 otherwise
lmap_event_calendar_match(event, t, zone) ==
    LET tm == localtime(t, zone)
        wday == IF tm.tm_wday = 0 THEN 6 ELSE tm.tm_wday - 1
    IN  IF event.type # "calendar" THEN -1
        ELSE IF event.months # Bits(16) /\ tm.tm_mon \notin event.months
        THEN 0
        ELSE IF event.days_of_month # Bits(32)
                 /\ tm.tm_mday \notin event.days_of_month
        THEN 0
        ELSE IF event.days_of_week # Bits(8) /\ wday \notin event.days_of_week
        THEN 0
        ELSE IF event.hours # Bits(32) /\ tm.tm_hour \notin event.hours
        THEN 0
        ELSE IF event.minutes # Bits(64) /\ tm.tm_min \notin event.minutes
        THEN 0
        ELSE IF event.seconds # Bits(64) /\ tm.tm_sec \notin event.seconds
        THEN 0
        ELSE 1

\* trigger_calendar_cb without an end time: no match looks again in a
\* second, a match arms the fire timer with a timeout of 0 plus the random
\* spread and looks again after as many seconds as the match returned
trigger_calendar_cb(tm, spread) ==
    LET match == lmap_event_calendar_match(tm.event, tm.clock, tm.zone)
        armed == event_gaga(tm, add_random_spread(tm.event, spread))
    IN  IF match < 0 THEN [tm EXCEPT !.trigger_event = NULL]
        ELSE IF match = 0 THEN [tm EXCEPT !.trigger_event = tm.clock + 1]
        ELSE IF armed.pc = "aborted" THEN armed
        ELSE [armed EXCEPT !.trigger_event = tm.clock + match]

\* the trigger timer expires: the timer of a periodic Event is persistent
\* and expires again one interval later.  A fire timer due in the same
\* second was armed a spread after an earlier run of the trigger callback,
\* itself later than the expiry it served: either timer may be first.
TimerTrigger ==
    /\ timer.pc = "loop"
    /\ timer.trigger_event = timer.clock
    /\ timer.start_event # timer.clock
    /\ \E spread \in Spreads(timer.event) :
           timer' = IF timer.event.type = "periodic"
                    THEN trigger_periodic_cb(
                             [timer EXCEPT
                                !.trigger_event =
                                    timer.clock + timer.event.interval],
                             spread)
                    ELSE trigger_calendar_cb(timer, spread)
    /\ UNCHANGED runnerVars
    /\ TimerUnchanged

\* the fire timer expires: fire_cb runs suppress_cb and execute_cb for the
\* Event and frees the fire timer
TimerFire ==
    /\ timer.pc = "loop"
    /\ timer.fire_event = timer.clock
    /\ fired.n < MaxFirings
    /\ fired' = [fired EXCEPT !.n = @ + 1]
    /\ Commit(fire_cb(Bundle, "e1", timer.clock), "fire", "e1")
    /\ timer' = [timer EXCEPT !.fire_event = NULL,
                              !.fires = @ \cup {timer.clock}]
    /\ UNCHANGED cfg
    /\ TimerUnchanged

TimerNext ==
    \/ TimerRun
    \/ TimerTick
    \/ TimerStartup
    \/ TimerTrigger
    \/ TimerFire

\* the periodic Events: with a start time, or without one
PeriodicEvents ==
    {[NoEvent EXCEPT !.type = "periodic", !.start_set = TRUE, !.start = st,
                     !.interval = i] :
         st \in 0 .. MaxTime, i \in 1 .. MaxInterval}
    \cup {[NoEvent EXCEPT !.type = "periodic", !.interval = i] :
              i \in 1 .. MaxInterval}

\* the daemon is started with a periodic Event at any time
PeriodicInit ==
    /\ cfg = [mode |-> "parallel", stop |-> "unset", tagging |-> "schedule",
              start |-> "periodic", sp1_start |-> "on",
              capability |-> Programs]
    /\ InitRunner
    /\ pidfile = DaemonPid("d1")
    /\ daemons = [d \in Daemons |-> IF d = "d1" THEN "loop" ELSE "none"]
    /\ main = InitMain
    /\ sigchld = FALSE
    /\ meta = [a \in Actions |-> NoMeta]
    /\ basedir = NoDir
    /\ lmap = NoLmap
    /\ csv = NoCsv
    /\ \E event \in PeriodicEvents, t \in 0 .. MaxTime :
           timer = [NoTimer EXCEPT !.event = event, !.clock = t]

SpecPeriodic == PeriodicInit /\ [][TimerNext]_vars

\* the least n with n * b >= a, for a >= 0 and b >= 1
Ceil(a, b) == (a + b - 1) \div b

(***************************************************************************)
(* C19: a periodic Event with interval i >= 1 whose start time is not      *)
(* after the time now at which lmapd_run armed it fires first (no random   *)
(* spread) at start + ceil((now - start) / i) * i, also when now - start   *)
(* is an exact multiple of i.                                              *)
(***************************************************************************)
C19_FirstPeriodicFiring ==
    [][(/\ timer.event.type = "periodic"
        /\ timer.event.start_set
        /\ timer.event.start <= timer.run
        /\ timer.fires = {}
        /\ timer'.fires # {})
       => timer'.fires =
              {timer.event.start
                   + Ceil(timer.run - timer.event.start, timer.event.interval)
                         * timer.event.interval}]_vars

\* the calendar Event hour 3, minute 0, second 0, every other field '*',
\* timezone-offset +01:00 (stored in minutes)
CalendarEvent ==
    [NoEvent EXCEPT !.type = "calendar", !.months = Bits(16),
                    !.days_of_month = Bits(32), !.days_of_week = Bits(8),
                    !.hours = {3}, !.minutes = {0}, !.seconds = {0},
                    !.offset_set = TRUE, !.timezone_offset = 60]

\* the daemon is started with the calendar Event at any second, on a host
\* in any of the zones
CalendarInit ==
    /\ cfg = [mode |-> "parallel", stop |-> "unset", tagging |-> "schedule",
              start |-> "periodic", sp1_start |-> "on",
              capability |-> Programs]
    /\ InitRunner
    /\ pidfile = DaemonPid("d1")
    /\ daemons = [d \in Daemons |-> IF d = "d1" THEN "loop" ELSE "none"]
    /\ main = InitMain
    /\ sigchld = FALSE
    /\ meta = [a \in Actions |-> NoMeta]
    /\ basedir = NoDir
    /\ lmap = NoLmap
    /\ csv = NoCsv
    /\ \E zone \in Zones, t \in 0 .. (SecondsPerDay * MaxDays - 1) :
           timer = [NoTimer EXCEPT !.event = CalendarEvent, !.zone = zone,
                                   !.clock = t]

SpecCalendar == CalendarInit /\ [][TimerNext]_vars

(***************************************************************************)
(* C20: the calendar Event with hour 3, minute 0, second 0, every other    *)
(* field '*' and timezone offset +01:00 fires exactly once at 02:00:00 UTC *)
(* on every date and at no other time: a run of the trigger callback arms  *)
(* the fire timer exactly when the clock shows 02:00:00 UTC, every firing  *)
(* is at 02:00:00 UTC, and no second has two firings.                      *)
(***************************************************************************)
C20_CalendarFiresAt0200UTC ==
    [][/\ (/\ timer.event = CalendarEvent
           /\ timer.trigger_event = timer.clock
           /\ timer'.trigger_event # timer.trigger_event)
          => (timer'.fire_event # NULL
                  <=> timer.clock % SecondsPerDay = 2 * 3600)
       /\ timer.event = CalendarEvent
          => /\ \A t \in timer'.fires : t % SecondsPerDay = 2 * 3600
             /\ fired'.n = Cardinality(timer'.fires)]_vars

\* the Suppressions that carry a stop-running leaf, match the Schedule's
\* suppression tags and are active
ActiveStopSupps(s) ==
    {p \in Supps : /\ supps[p].state = "active"
                   /\ supp_stop_running_set(p)
                   /\ big_tag_match(supp_match(p), sched_suppression_tags(s))}

(***************************************************************************)
(* C23: a Schedule's STOP_RUNNING flag is set only while a Suppression     *)
(* with stop-running that matches the Schedule's suppression tags is       *)
(* active: in every state without such an active Suppression the flag is   *)
(* clear.                                                                  *)
(***************************************************************************)
C23_StopRunningOnlyWhileActive ==
    \A s \in Schedules :
        schedules[s].stop_running => ActiveStopSupps(s) # {}

\* the step reaps the last running Action of Schedule s: its cycle ends
CycleEnds(s) ==
    /\ \E a \in ActionsOf(s) : actions[a].pid # 0
    /\ \A a \in ActionsOf(s) : actions'[a].pid = 0

\* after the step: Action a was started in the cycle that the last dispatch
\* of s began (schedule_exec and action_exec stamp last_invocation)
InCycle(s, a) ==
    /\ actions'[a].cnt_invocations >= 1
    /\ actions'[a].last_invocation >= schedules'[s].last_invocation

\* at least one Action of the cycle completed with status 0, none with
\* another status
CycleSucceeded(s) ==
    /\ \E a \in ActionsOf(s) : InCycle(s, a)
    /\ \A a \in ActionsOf(s) : InCycle(s, a) => actions'[a].last_status = 0

\* an Action of the cycle completed with a non-zero status
CycleFailed(s) ==
    \E a \in ActionsOf(s) : InCycle(s, a) /\ actions'[a].last_status # 0

(***************************************************************************)
(* C24: when the last running Action of a Schedule is reaped and, in the   *)
(* cycle that ends, at least one Action completed with status 0 and none   *)
(* with a non-zero status, Schedule-clean is run on the Schedule (its      *)
(* active queue is empty afterwards), whatever the type of its start       *)
(* Event; at the end of a cycle in which an Action failed Schedule-clean   *)
(* is not run (nothing leaves the active queue).                           *)
(***************************************************************************)
C24_CleanAfterSuccessfulCycle ==
    [][\A s \in Schedules :
          CycleEnds(s) =>
              /\ CycleSucceeded(s) => active'[s] = {}
              /\ CycleFailed(s) => active[s] \subseteq active'[s]]_vars

(***************************************************************************)
(* C25: at the end of a Schedule's cycle its cnt_failures is incremented   *)
(* if and only if an Action of the Schedule completed with a non-zero      *)
(* status during that cycle; an Action that did not run in the cycle does  *)
(* not cause an increment, whatever status an earlier cycle left it.       *)
(***************************************************************************)
C25_FailureCountedPerCycle ==
    [][\A s \in Schedules :
          CycleEnds(s) =>
              schedules'[s].cnt_failures =
                  schedules[s].cnt_failures
                      + (IF CycleFailed(s) THEN 1 ELSE 0)]_vars

\* the step is a run of the completion handler that reaps an Action of s
Reaps(s) ==
    \E a \in ActionsOf(s) :
        procs[a].phase = "zombie" /\ procs'[a].phase # "zombie"

OneShotStart(s) ==
    event_type(sched_start(s)) \in {"one_off", "immediate", "startup"}

(***************************************************************************)
(* C27: the firing of a one_off, immediate or startup Event that           *)
(* dispatches a Schedule leaves the Schedule disabled, and while the       *)
(* configuration is not reloaded a disabled Schedule stays disabled and is *)
(* not dispatched again (cnt_invocations unchanged), whatever Events fire  *)
(* and whatever Actions complete.                                          *)
(***************************************************************************)
C27_OneShotScheduleStaysDisabled ==
    [][\A s \in Schedules :
          OneShotStart(s) =>
              /\ (fired'.n # fired.n /\ s \in last'.dispatched)
                     => schedules'[s].state = "disabled"
              /\ schedules[s].state = "disabled"
                     => /\ schedules'[s].state = "disabled"
                        /\ schedules'[s].cnt_invocations
                               = schedules[s].cnt_invocations
                        /\ (fired'.n # fired.n => s \notin last'.dispatched)]_vars

\* s1 was dispatched by its immediate start Event, other Events have fired
\* since and the completion handler has reaped both of its Actions
C27_Witness ==
    /\ OneShotStart("s1")
    /\ schedules["s1"].cnt_invocations = 1
    /\ schedules["s1"].state = "disabled"
    /\ fired.n = MaxFirings
    /\ last.op = "cleanup"
    /\ \A a \in Actions : actions[a].cnt_invocations = 1 /\ actions[a].pid = 0

(***************************************************************************)
(* The order of the two rules in one firing.  The runner with s1's tag on  *)
(* the Schedule and sp1 started either by on or by e1, the start Event of  *)
(* s1; sp2 ends with e1.                                                   *)
(***************************************************************************)
OrderConfigs ==
    [mode : Modes, stop : {"unset", "true"}, tagging : {"schedule"},
     start : StartTypes, sp1_start : {"on", "e1"}, capability : {Programs}]

OrderInit ==
    /\ cfg \in OrderConfigs
    /\ InitRunner
    /\ InitExt

SpecOrder == OrderInit /\ [][Next]_vars

\* the enabled Suppressions that match Schedule s and start with Event e
StartingFor(s, e) ==
    {p \in Supps : /\ supps[p].state = "enabled"
                   /\ supp_start(p) = e
                   /\ big_tag_match(supp_match(p), sched_suppression_tags(s))}

\* the active Suppressions that match Schedule s
ActiveFor(s) == ActiveMatching(sched_suppression_tags(s))

EndDispatches ==
    /\ cfg.sp1_start = "on"
    /\ last.op = "fire"
    /\ last.ev = "e1"
    /\ "s1" \in last.dispatched
    /\ supps["sp2"].state = "enabled"
    /\ supps["sp1"].state = "enabled"
    /\ "e2" \in fired.once
    /\ fired.n = 2

\* the one_off Events: the start time is mandatory (lmap_event_valid)
OneOffEvents ==
    {[NoEvent EXCEPT !.type = "one_off", !.start_set = TRUE, !.start = st] :
         st \in 0 .. MaxTime}

\* the daemon is started with a one_off Event at any time
OneOffInit ==
    /\ cfg = [mode |-> "parallel", stop |-> "unset", tagging |-> "schedule",
              start |-> "one_off", sp1_start |-> "on",
              capability |-> Programs]
    /\ InitRunner
    /\ pidfile = DaemonPid("d1")
    /\ daemons = [d \in Daemons |-> IF d = "d1" THEN "loop" ELSE "none"]
    /\ main = InitMain
    /\ sigchld = FALSE
    /\ meta = [a \in Actions |-> NoMeta]
    /\ basedir = NoDir
    /\ lmap = NoLmap
    /\ csv = NoCsv
    /\ \E event \in OneOffEvents, t \in 0 .. MaxTime :
           timer = [NoTimer EXCEPT !.event = event, !.clock = t]

\* a one_off Event has neither a start timer nor a trigger timer
OneOffNext ==
    \/ TimerRun
    \/ TimerTick
    \/ TimerFire

SpecOneOff == OneOffInit /\ [][OneOffNext]_vars

(***************************************************************************)
(* C29: once lmapd_run has armed the timers, a one_off Event whose start   *)
(* time lay after the daemon start has its fire timer armed for start      *)
(* until that second and has fired once, at start, after it; a one_off     *)
(* Event whose start time lay before the daemon start has no fire timer    *)
(* and never fires.                                                        *)
(***************************************************************************)
C29_OneOffFiresOnceIfFuture ==
    (timer.event.type = "one_off" /\ timer.pc = "loop") =>
        /\ timer.run < timer.event.start =>
               /\ timer.clock < timer.event.start =>
                      timer.fire_event = timer.event.start /\ timer.fires = {}
               /\ timer.clock > timer.event.start =>
                      timer.fire_event = NULL
                          /\ timer.fires = {timer.event.start}
        /\ timer.run > timer.event.start =>
               timer.fire_event = NULL /\ timer.fires = {}

\* a firing dispatches the pipelined Schedule s in this step
PipelinedDispatch(s) ==
    /\ sched_mode(s) = "pipelined"
    /\ fired'.n # fired.n
    /\ s \in last'.dispatched

\* the completion handler reaps Action a of a pipelined Schedule, which
\* exited with status 0 and has a successor
PipelinedSuccess(a) ==
    /\ sched_mode(action_schedule(a)) = "pipelined"
    /\ procs[a].phase = "zombie"
    /\ procs'[a].phase # "zombie"
    /\ procs[a].wstatus = 0
    /\ next_action(a) # "none"

(***************************************************************************)
(* C30: a dispatched Schedule in pipelined mode starts its first Action,   *)
(* if that Action is enabled and has no child, and the Action's            *)
(* cnt_invocations goes up by one; when an Action of a pipelined Schedule  *)
(* ends with status 0 its successor, if enabled, is started.               *)
(***************************************************************************)
C30_PipelinedDispatched ==
    [][/\ \A s \in Schedules : PipelinedDispatch(s) =>
              \A k \in DOMAIN first_action(s) :
                  LET a == first_action(s)[k]
                      act == suppress_cb(Bundle, last'.ev).actions[a]
                  IN  (act.state = "enabled" /\ act.pid = 0) =>
                          /\ a \in last'.forked
                          /\ actions'[a].state = "running"
                          /\ actions'[a].cnt_invocations
                                 = actions[a].cnt_invocations + 1
       /\ \A a \in Actions :
              (/\ PipelinedSuccess(a)
               /\ actions[next_action(a)].state = "enabled"
               /\ actions[next_action(a)].pid = 0)
              => next_action(a) \in last'.forked]_vars

(***************************************************************************)
(* The configuration as the parser builds it with lmap_add_event,          *)
(* lmap_add_task, lmap_add_schedule and lmap_add_supp, and lmap_valid,     *)
(* which the daemon calls on the result.  A name is a string, or NoName    *)
(* for the NULL pointer of a leaf that is not set.  The lists reject a     *)
(* name they already hold, which bounds them by the sets of names.         *)
(***************************************************************************)
NoName == "none"

EventNames == {"e1", "e2"}
TaskNames == {"t1"}
ScheduleNames == {"s1"}

\* what a destination leaf may say: s2 is never the name of a Schedule
DestinationNames == {"s1", "s2"}

\* the range of a list of names
NamesOf(list) == {list[k].name : k \in DOMAIN list}

\* lmap_add_event, lmap_add_task, lmap_add_schedule, lmap_add_supp: the
\* entry goes to the tail of the list unless it has no name or the list
\* holds its name
add_entry(list, entry) ==
    IF entry.name = NoName \/ entry.name \in NamesOf(list) THEN list
    ELSE Append(list, entry)

\* lmap_find_event, lmap_find_task, lmap_find_schedule: 1 when an entry of
\* the list has that name, 0 (NULL) when none has or the name is NULL
find_entry(list, name) ==
    IF name = NoName THEN 0
    ELSE IF \E k \in DOMAIN list :
                list[k].name # NoName /\ list[k].name = name
    THEN 1
    ELSE 0

lmap_find_event(l, name) == find_entry(l.events, name)

lmap_find_task(l, name) == find_entry(l.tasks, name)

lmap_find_schedule(l, name) == find_entry(l.schedules, name)

lmap_supp_valid(l, supp) ==
    IF \/ supp.name = NoName
       \/ (supp.start # NoName /\ lmap_find_event(l, supp.start) = 0)
       \/ (supp.end # NoName /\ lmap_find_event(l, supp.end) = 0)
    THEN 0
    ELSE 1

\* variant: the destinations of an Action are not looked up
lmap_action_valid_no_destinations(l, action) ==
    IF \/ action.name = NoName
       \/ action.task = NoName
       \/ (action.task # NoName /\ lmap_find_task(l, action.task) = 0)
    THEN 0
    ELSE 1

lmap_action_valid(l, action) ==
    IF \/ action.name = NoName
       \/ action.task = NoName
       \/ (action.task # NoName /\ lmap_find_task(l, action.task) = 0)
       \/ \E k \in DOMAIN action.destinations :
              lmap_find_schedule(l, action.destinations[k]) = 0
    THEN 0
    ELSE 1

lmap_schedule_valid(l, schedule) ==
    IF \/ schedule.name = NoName
       \/ schedule.start = NoName
       \/ (schedule.start # NoName /\ lmap_find_event(l, schedule.start) = 0)
       \/ (schedule.end # NoName /\ lmap_find_event(l, schedule.end) = 0)
       \/ \E k \in DOMAIN schedule.actions :
              lmap_action_valid(l, schedule.actions[k]) = 0
    THEN 0
    ELSE 1

\* lmap_valid: the conjunction over the Suppressions and the Schedules, and
\* over the Agent, the Tasks and the Events, whose checks look at no name
\* of another entry and whose conjunction is the parameter rest
lmap_valid(l, rest) ==
    IF /\ rest = 1
       /\ \A k \in DOMAIN l.supps : lmap_supp_valid(l, l.supps[k]) = 1
       /\ \A k \in DOMAIN l.schedules :
              lmap_schedule_valid(l, l.schedules[k]) = 1
    THEN 1
    ELSE 0

\* the Actions a Schedule of the configuration file may have: none, or a1
\* with or without a Task and with at most one destination
ActionInputs ==
    {<<>>}
    \cup {<<[name |-> "a1", task |-> t, destinations |-> d]>> :
              t \in TaskNames \cup {NoName},
              d \in {<<>>} \cup {<<n>> : n \in DestinationNames}}

ScheduleInputs ==
    [name : ScheduleNames, start : EventNames \cup {NoName},
     end : EventNames \cup {NoName}, actions : ActionInputs]

SuppInputs ==
    [name : {"sp1"}, start : EventNames \cup {NoName},
     end : EventNames \cup {NoName}]

LmapUnchanged ==
    UNCHANGED <<runnerVars, pidfile, daemons, main, sigchld, meta, timer, csv, basedir>>

\* the parser reads an Event, a Task, a Schedule or a Suppression
LmapAddEvent ==
    /\ lmap.pc = "parse"
    /\ \E n \in EventNames :
           lmap' = [lmap EXCEPT !.events = add_entry(@, [name |-> n])]
    /\ LmapUnchanged

LmapAddTask ==
    /\ lmap.pc = "parse"
    /\ \E n \in TaskNames :
           lmap' = [lmap EXCEPT !.tasks = add_entry(@, [name |-> n])]
    /\ LmapUnchanged

LmapAddSchedule ==
    /\ lmap.pc = "parse"
    /\ \E schedule \in ScheduleInputs :
           lmap' = [lmap EXCEPT !.schedules = add_entry(@, schedule)]
    /\ LmapUnchanged

LmapAddSupp ==
    /\ lmap.pc = "parse"
    /\ \E supp \in SuppInputs :
           lmap' = [lmap EXCEPT !.supps = add_entry(@, supp)]
    /\ LmapUnchanged

\* the daemon validates what the parser built
LmapValid ==
    /\ lmap.pc = "parse"
    /\ \E rest \in {0, 1} :
           lmap' = [lmap EXCEPT !.pc = "checked",
                                !.valid = lmap_valid(lmap, rest)]
    /\ LmapUnchanged

LmapNext ==
    \/ LmapAddEvent
    \/ LmapAddTask
    \/ LmapAddSchedule
    \/ LmapAddSupp
    \/ LmapValid

\* the parser starts on an empty configuration
LmapInit ==
    /\ cfg = [mode |-> "parallel", stop |-> "unset", tagging |-> "schedule",
              start |-> "periodic", sp1_start |-> "on",
              capability |-> Programs]
    /\ InitRunner
    /\ pidfile = DaemonPid("d1")
    /\ daemons = [d \in Daemons |-> IF d = "d1" THEN "loop" ELSE "none"]
    /\ main = InitMain
    /\ sigchld = FALSE
    /\ meta = [a \in Actions |-> NoMeta]
    /\ timer = NoTimer
    /\ basedir = NoDir
    /\ lmap = [NoLmap EXCEPT !.pc = "parse"]
    /\ csv = NoCsv

SpecLmap == LmapInit /\ [][LmapNext]_vars

(***************************************************************************)
(* C22: a configuration for which lmap_valid returned 1 is referentially   *)
(* closed: the start and the end of every Schedule and of every            *)
(* Suppression, where set, is the name of an Event of the configuration,   *)
(* the task of every Action is the name of a Task, and every destination   *)
(* of every Action is the name of a Schedule.                              *)
(***************************************************************************)
C22_ValidIsClosed ==
    (lmap.pc = "checked" /\ lmap.valid = 1) =>
        /\ \A k \in DOMAIN lmap.schedules :
               LET schedule == lmap.schedules[k]
               IN  /\ schedule.start # NoName
                          => schedule.start \in NamesOf(lmap.events)
                   /\ schedule.end # NoName
                          => schedule.end \in NamesOf(lmap.events)
                   /\ \A j \in DOMAIN schedule.actions :
                          LET action == schedule.actions[j]
                          IN  /\ action.task \in NamesOf(lmap.tasks)
                              /\ \A d \in DOMAIN action.destinations :
                                     action.destinations[d]
                                         \in NamesOf(lmap.schedules)
        /\ \A k \in DOMAIN lmap.supps :
               /\ lmap.supps[k].start # NoName
                      => lmap.supps[k].start \in NamesOf(lmap.events)
               /\ lmap.supps[k].end # NoName
                      => lmap.supps[k].end \in NamesOf(lmap.events)

\* an accepted configuration in which every kind of reference is set
C22_Witness ==
    /\ lmap.pc = "checked"
    /\ lmap.valid = 1
    /\ \E k \in DOMAIN lmap.schedules :
           /\ lmap.schedules[k].start # NoName
           /\ lmap.schedules[k].end # NoName
           /\ \E j \in DOMAIN lmap.schedules[k].actions :
                  lmap.schedules[k].actions[j].destinations # <<>>
    /\ \E k \in DOMAIN lmap.supps :
           lmap.supps[k].start # NoName /\ lmap.supps[k].end # NoName

(***************************************************************************)
(* The CSV codec.  A string is a sequence of characters and a file is the  *)
(* sequence of the characters written to it; a character is the string     *)
(* that names it.  NoField stands for the NULL pointer, Nul for the        *)
(* delimiter 0 and EOF for what fgetc returns at the end of the file.      *)
(***************************************************************************)
MaxFieldLen == 2   \* CSV: a field has 0 .. MaxFieldLen characters

\* a record has one field, or two: a key and its value
FieldCounts == {1, 2}

Quote == "quote"
Newline == "newline"
Space == "space"
Nul == "nul"
EOF == "EOF"
NoField == <<"NULL">>

CsvChars == {"a", ";", Quote, Space, Newline}

\* isspace() on the characters of the model
isspace(c) == c \in {Space, Newline}

\* the loop of append that writes a field between quotes: a quote is
\* written twice
RECURSIVE fputs_quoted(_, _)
fputs_quoted(file, field) ==
    IF field = <<>> THEN file
    ELSE LET c == Head(field)
         IN  fputs_quoted(IF c = Quote THEN file \o <<c, c>> ELSE Append(file, c),
                          Tail(field))

append(file, delimiter, field) ==
    IF field = NoField THEN Append(file, Newline)
    ELSE IF \E i \in DOMAIN field :
                \/ (delimiter # Nul /\ field[i] = delimiter)
                \/ field[i] = Quote
                \/ isspace(field[i])
    THEN Append(fputs_quoted(Append(file, Quote), field), Quote)
    ELSE file \o field

csv_append(file, delimiter, field) ==
    append(Append(file, delimiter), delimiter, field)

csv_start(file, delimiter, field) == append(file, delimiter, field)

csv_end(file) == append(file, Nul, NoField)

csv_append_key_value(file, delimiter, key, value) ==
    IF key # NoField /\ value # NoField
    THEN csv_end(csv_append(csv_start(file, delimiter, key), delimiter, value))
    ELSE file

\* a FILE open for reading: the characters, the offset, the end-of-file
\* indicator
fgetc(st) ==
    IF st.pos < Len(st.file)
    THEN [c |-> st.file[st.pos + 1], st |-> [st EXCEPT !.pos = @ + 1]]
    ELSE [c |-> EOF, st |-> [st EXCEPT !.eof = TRUE]]

ungetc(st) == [st EXCEPT !.pos = @ - 1, !.eof = FALSE]

\* the loop of csv_next, i characters being stored in buf (NoField while
\* nothing is allocated), and its return value
RECURSIVE csv_next_loop(_, _, _, _, _)
csv_next_loop(st, delimiter, i, quoted, buf) ==
    LET g == fgetc(st)
        c == g.c
        buf1 == IF buf = NoField THEN <<>> ELSE buf
    IN  IF c = EOF THEN [s |-> buf, st |-> g.st]
        ELSE IF ~quoted /\ c = delimiter THEN [s |-> buf, st |-> g.st]
        ELSE IF c = Newline
        THEN IF i = 0 THEN [s |-> NoField, st |-> g.st]
             ELSE [s |-> buf, st |-> ungetc(g.st)]
        ELSE IF i = 0 /\ ~quoted /\ isspace(c)
        THEN csv_next_loop(g.st, delimiter, i, quoted, buf)
        ELSE IF i = 0 /\ c = Quote
        THEN csv_next_loop(g.st, delimiter, i, TRUE, buf)
        ELSE IF c = Quote /\ quoted
        THEN LET g2 == fgetc(g.st)
             IN  IF g2.c \in {EOF, delimiter, Newline}
                 THEN [s |-> buf1, st |-> g2.st]
                 ELSE csv_next_loop(g2.st, delimiter, i + 1, quoted,
                                    Append(buf1, g2.c))
        ELSE csv_next_loop(g.st, delimiter, i + 1, quoted, Append(buf1, c))

csv_next(st, delimiter) == csv_next_loop(st, delimiter, 0, FALSE, NoField)

\* the loop of csv_next_key_value that looks for the key
RECURSIVE csv_next_key(_, _)
csv_next_key(st, delimiter) ==
    LET r == csv_next(st, delimiter)
    IN  IF r.s # NoField \/ r.st.eof THEN r
        ELSE csv_next_key(r.st, delimiter)

csv_next_key_value(st, delimiter) ==
    IF st.eof THEN [key |-> NoField, value |-> NoField, st |-> st]
    ELSE LET k == csv_next_key(st, delimiter)
         IN  IF k.s = NoField
             THEN [key |-> NoField, value |-> NoField, st |-> k.st]
             ELSE LET v == csv_next(k.st, delimiter)
                  IN  [key |-> k.s, value |-> v.s, st |-> v.st]

\* the strings a field may be
FieldStrings == UNION {[1 .. n -> CsvChars] : n \in 0 .. MaxFieldLen}

CsvUnchanged ==
    UNCHANGED <<runnerVars, pidfile, daemons, main, sigchld, meta, timer, lmap, basedir>>

\* the stream of the reader
CsvStream == [file |-> csv.file, pos |-> csv.pos, eof |-> csv.eof]

\* the writer starts the record with the first field
CsvStart ==
    /\ csv.pc = "write"
    /\ csv.k = 0
    /\ csv' = [csv EXCEPT
                 !.k = 1,
                 !.file = csv_start(@, csv.delimiter, csv.fields[1])]
    /\ CsvUnchanged

CsvAppend ==
    /\ csv.pc = "write"
    /\ csv.k \in 1 .. (Len(csv.fields) - 1)
    /\ csv' = [csv EXCEPT
                 !.k = @ + 1,
                 !.file = csv_append(@, csv.delimiter, csv.fields[csv.k + 1])]
    /\ CsvUnchanged

\* the writer ends the record; the file is rewound for the reader
CsvEnd ==
    /\ csv.pc = "write"
    /\ csv.k = Len(csv.fields)
    /\ csv' = [csv EXCEPT !.pc = "read", !.file = csv_end(@)]
    /\ CsvUnchanged

\* a record of two fields is written as a key and its value
CsvAppendKeyValue ==
    /\ csv.pc = "write"
    /\ csv.k = 0
    /\ Len(csv.fields) = 2
    /\ csv' = [csv EXCEPT
                 !.pc = "read",
                 !.k = 2,
                 !.file = csv_append_key_value(@, csv.delimiter,
                                               csv.fields[1], csv.fields[2])]
    /\ CsvUnchanged

\* the reader reads the next field of the record
CsvNext ==
    /\ csv.pc = "read"
    /\ Len(csv.read) < Len(csv.fields)
    /\ LET r == csv_next(CsvStream, csv.delimiter)
       IN  csv' = [csv EXCEPT !.read = Append(@, r.s), !.pos = r.st.pos,
                              !.eof = r.st.eof]
    /\ CsvUnchanged

\* the reader reads a record of two fields as a key and its value
CsvNextKeyValue ==
    /\ csv.pc = "read"
    /\ csv.read = <<>>
    /\ Len(csv.fields) = 2
    /\ LET r == csv_next_key_value(CsvStream, csv.delimiter)
       IN  csv' = [csv EXCEPT !.read = <<r.key, r.value>>, !.pos = r.st.pos,
                              !.eof = r.st.eof]
    /\ CsvUnchanged

CsvSteps ==
    \/ CsvStart
    \/ CsvAppend
    \/ CsvEnd
    \/ CsvAppendKeyValue
    \/ CsvNext
    \/ CsvNextKeyValue

\* an empty file is open and a record of any fields is to be written with
\* the delimiter ';'
CsvInit ==
    /\ cfg = [mode |-> "parallel", stop |-> "unset", tagging |-> "schedule",
              start |-> "periodic", sp1_start |-> "on",
              capability |-> Programs]
    /\ InitRunner
    /\ pidfile = DaemonPid("d1")
    /\ daemons = [d \in Daemons |-> IF d = "d1" THEN "loop" ELSE "none"]
    /\ main = InitMain
    /\ sigchld = FALSE
    /\ meta = [a \in Actions |-> NoMeta]
    /\ timer = NoTimer
    /\ basedir = NoDir
    /\ lmap = NoLmap
    /\ \E n \in FieldCounts : \E F \in [1 .. n -> FieldStrings] :
           csv = [NoCsv EXCEPT !.pc = "write", !.delimiter = ";",
                               !.fields = F]

SpecCsv == CsvInit /\ [][CsvSteps]_vars

(***************************************************************************)
(* C21: when a record of fields F has been written with csv_start,         *)
(* csv_append and csv_end, or with csv_append_key_value, and as many       *)
(* fields have been read back with csv_next or csv_next_key_value and the  *)
(* same delimiter, the fields read are F, field by field.                  *)
(***************************************************************************)
C21_CsvRoundTrip ==
    (csv.pc = "read" /\ Len(csv.read) = Len(csv.fields)) =>
        csv.read = csv.fields

(***************************************************************************)
(* C31: in every state between two callbacks of the event loop, every      *)
(* Action has pid # 0 exactly when its state is running.                   *)
(***************************************************************************)
C31_PidIffRunning ==
    \A a \in Actions : actions[a].pid # 0 <=> actions[a].state = "running"

(***************************************************************************)
(* The Capability of the agent lists the programs of some Tasks only, or   *)
(* a program that differs from a Task's program in the case of a letter.   *)
(***************************************************************************)
Capabilities ==
    {{}, {"/bin/p1"}, {"/bin/p2"}, {"/bin/P1", "/bin/p2"}}

CapConfigs ==
    [mode : {"sequential", "parallel"}, stop : {"unset", "true"},
     tagging : Taggings, start : StartTypes, sp1_start : {"on"},
     capability : Capabilities]

CapInit ==
    /\ cfg \in CapConfigs
    /\ InitRunner
    /\ InitExt

SpecCap == CapInit /\ [][Next]_vars

(***************************************************************************)
(* C32: an Action whose Task's program is not string-equal to a program    *)
(* of the Capability never has a child process, and no execution attempt   *)
(* changes it: it is never in state running, and its pid, cnt_invocations  *)
(* and last_invocation keep the values they had at the start.              *)
(***************************************************************************)
C32_NoForkWithoutCapability ==
    \A a \in Actions :
        ~ task_capable(a) =>
            /\ procs[a].phase = "none"
            /\ actions[a].state # "running"
            /\ actions[a].pid = 0
            /\ actions[a].cnt_invocations = 0
            /\ actions[a].last_invocation = 0

\* the start Event of s1 has fired and s1 was dispatched with a1 enabled,
\* the program of a1's Task not being in the Capability
C32_Witness ==
    /\ ~ task_capable("a1")
    /\ last.op = "fire"
    /\ last.ev = sched_start("s1")
    /\ "s1" \in last.dispatched
    /\ actions["a1"].state = "enabled"
    /\ actions["a1"].cnt_suppressions = 0

(***************************************************************************)
(* Schedule-move on a queue that holds files of an earlier run of the      *)
(* daemon: s2 finds in _incoming, and in its active queue, any of the two  *)
(* result files that a1 wrote in second 0.                                 *)
(***************************************************************************)
LeftOver == {MetaFile(Base(0, "a1")), DataFile(Base(0, "a1"))}

MoveInit ==
    /\ cfg = [mode |-> "sequential", stop |-> "unset", tagging |-> "schedule",
              start |-> "periodic", sp1_start |-> "on",
              capability |-> Programs]
    /\ schedules = [s \in Schedules |-> InitSchedule]
    /\ actions = [a \in Actions |-> InitAction]
    /\ supps = [p \in Supps |-> [state |-> "enabled"]]
    /\ procs = [a \in Actions |-> NoProc]
    /\ ws = [a \in Actions |-> {}]
    /\ \E inc \in SUBSET LeftOver, act \in SUBSET LeftOver :
           /\ incoming = [s \in Schedules |-> IF s = "s2" THEN inc ELSE {}]
           /\ active = [s \in Schedules |-> IF s = "s2" THEN act ELSE {}]
    /\ fired = [n |-> 0, once |-> {}]
    /\ failures = {}
    /\ last = NoCallback
    /\ InitExt

SpecMove == MoveInit /\ [][WsNext]_vars

\* the complete pairs of a directory
CompletePairs(dir) == {b \in MetaBases(dir) : DataFile(b) \in dir}

\* no call that Schedule-move made on a file of the pair b failed
NoFailureOn(b, failed) ==
    \A c \in {"link", "rollback", "unlink"} :
        \A f \in {DataFile(b), MetaFile(b)} : <<c, f>> \notin failed

(***************************************************************************)
(* C33: when a call of Schedule-move returns, a pair whose .meta link      *)
(* failed has not left its .data in the active area, if the rollback did   *)
(* not fail too, and every complete pair that was in _incoming and for     *)
(* whose files no call failed is in the active area, whatever happened to  *)
(* the other pairs.                                                        *)
(***************************************************************************)
C33_MoveContinuesAfterFailure ==
    last.op = "schedule_move" =>
        \A b \in last.pairs :
            /\ (/\ <<"link", MetaFile(b)>> \in last.bad
                /\ <<"rollback", DataFile(b)>> \notin last.bad)
               => DataFile(b) \notin last.added
            /\ NoFailureOn(b, last.bad)
               => {DataFile(b), MetaFile(b)} \subseteq active[last.ev]

\* the files of a directory that belong to no complete pair of it
LoneFiles(dir) ==
    {f \in dir : f[1] \notin CompletePairs(dir)}

(***************************************************************************)
(* C34: a call of Schedule-move leaves every file of _incoming that is     *)
(* not part of a complete pair where it is, in _incoming and not linked    *)
(* into the active area, and promotes every pair that is complete at this  *)
(* call (whether or not it was complete at an earlier one) if no call on   *)
(* the files of the pair fails.                                            *)
(***************************************************************************)
C34_LoneFilesStayUntilComplete ==
    [][\A s \in Schedules :
          (last'.op = "schedule_move" /\ last'.ev = s) =>
              /\ \A f \in LoneFiles(incoming[s]) :
                     /\ f \in incoming'[s]
                     /\ f \in active'[s] <=> f \in active[s]
              /\ \A b \in CompletePairs(incoming[s]) :
                     NoFailureOn(b, last'.bad)
                     => {DataFile(b), MetaFile(b)} \subseteq active'[s]]_vars

(***************************************************************************)
(* The directory tree below the base directory of one Schedule.  An entry  *)
(* is <<path, kind>>; a path is the sequence of names from the base        *)
(* directory down, and a name is <<first character, remainder>> because    *)
(* the code tests d_name[0].  The base directory holds the special folder  *)
(* _incoming, the workspace directory of the Schedule's Action and what    *)
(* lmapd_workspace_action_move links into it; a program run by the Action  *)
(* creates entries of any kind in the workspace.                           *)
(***************************************************************************)
IncomingName == <<"_", "incoming">>
ActionDirName == <<"a", "1">>
ResultName == <<"1", "-s1-a1.data">>
KeptName == <<"_", "keep">>
LinkName == <<"l", "nk">>
FifoName == <<"f", "ifo">>

ChildNames == {ResultName, KeptName, LinkName, FifoName}

KindOf(n) ==
    IF n = LinkName THEN "lnk"
    ELSE IF n = FifoName THEN "fifo"
    ELSE "reg"

\* the entries found directly in directory dir of the tree
EntriesIn(tree, dir) ==
    {e \in tree : Len(e[1]) = Len(dir) + 1
                  /\ SubSeq(e[1], 1, Len(dir)) = dir}

\* lmapd_workspace_init: the directories the daemon creates
InitTree == {<<<<IncomingName>>, "dir">>, <<<<ActionDirName>>, "dir">>}

\* the failures of one scan of directory dir: at most one call fails
ScanFaults(calls, tree, dir) ==
    {{}} \cup {{<<c, e[1][Len(e[1])]>>} :
                   c \in calls, e \in EntriesIn(tree, dir)}

\* variant: a scan that does not look at the first character of the name
schedule_clean_scan_any_name(tree, bad) ==
    LET looked == {e \in EntriesIn(tree, <<>>) :
                      /\ <<"fstatat", e[1][1]>> \notin bad
                      /\ e[2] # "dir"}
        gone == {e \in looked : <<"unlinkat", e[1][1]>> \notin bad}
    IN  [tree |-> tree \ gone,
         ret |-> IF looked = gone THEN 0 ELSE -1]

(***************************************************************************)
(* lmapd_workspace_schedule_clean on the tree: every entry of the base     *)
(* directory is skipped when its name begins with '_', when fstatat (which *)
(* does not follow symbolic links) fails or when it is a directory;        *)
(* every other entry is unlinked, and a failed unlinkat makes the result   *)
(* -1 while the scan goes on.                                              *)
(***************************************************************************)
schedule_clean_scan(tree, bad) ==
    LET looked == {e \in EntriesIn(tree, <<>>) :
                      /\ e[1][1][1] # "_"
                      /\ <<"fstatat", e[1][1]>> \notin bad
                      /\ e[2] # "dir"}
        gone == {e \in looked : <<"unlinkat", e[1][1]>> \notin bad}
    IN  [tree |-> tree \ gone,
         ret |-> IF looked = gone THEN 0 ELSE -1]

(***************************************************************************)
(* lmapd_workspace_action_move on the tree: every entry of the Action      *)
(* workspace is linked under its own name into dst (the base directory     *)
(* when the destination is the Action's own Schedule, _incoming            *)
(* otherwise).  link fails on a directory and on a name that exists.       *)
(***************************************************************************)
action_move_scan(tree, dst, bad) ==
    LET linked == {e \in EntriesIn(tree, <<ActionDirName>>) :
                      /\ e[2] # "dir"
                      /\ <<"link", e[1][2]>> \notin bad
                      /\ \A k \in DirKinds :
                            <<dst \o <<e[1][2]>>, k>> \notin tree}
    IN  [tree |-> tree \cup {<<dst \o <<e[1][2]>>, e[2]>> : e \in linked},
         ret |-> IF linked = EntriesIn(tree, <<ActionDirName>>)
                 THEN 0 ELSE -1]

\* lmapd_workspace_action_clean on the tree: the workspace is emptied
action_clean_scan(tree) ==
    tree \ {e \in tree : Len(e[1]) > 1 /\ e[1][1] = ActionDirName}

DirUnchanged ==
    UNCHANGED <<runnerVars, pidfile, daemons, main, sigchld, meta, timer,
                lmap, csv>>

\* the program of the Action creates an entry in the workspace
DirChild(n) ==
    /\ \A k \in DirKinds : <<<<ActionDirName, n>>, k>> \notin basedir.tree
    /\ basedir' = [op |-> "child", before |-> {}, ret |-> 0, sent |-> {},
                   tree |-> basedir.tree
                               \cup {<<<<ActionDirName, n>>, KindOf(n)>>}]
    /\ DirUnchanged

\* lmapd_cleanup: the results are moved to dst and the workspace is cleaned
DirActionMove(dst) ==
    /\ EntriesIn(basedir.tree, <<ActionDirName>>) # {}
    /\ \E bad \in ScanFaults({"link"}, basedir.tree, <<ActionDirName>>) :
          LET r == action_move_scan(basedir.tree, dst, bad)
          IN  basedir' = [op |-> "action_move", before |-> {}, sent |-> {},
                          ret |-> r.ret, tree |-> action_clean_scan(r.tree)]
    /\ DirUnchanged

\* the end of a cycle without failure: the base directory is cleaned
DirScheduleClean ==
    /\ \E bad \in ScanFaults({"fstatat", "unlinkat"}, basedir.tree, <<>>) :
          LET r == schedule_clean_scan(basedir.tree, bad)
          IN  basedir' = [op |-> "schedule_clean", before |-> basedir.tree,
                          sent |-> {},
                          ret |-> r.ret, tree |-> r.tree]
    /\ DirUnchanged

DirNext ==
    \/ \E n \in ChildNames : DirChild(n)
    \/ \E dst \in {<<>>, <<IncomingName>>} : DirActionMove(dst)
    \/ DirScheduleClean

DirInit ==
    /\ InitRunner
    /\ cfg = [mode |-> "sequential", stop |-> "unset",
              tagging |-> "schedule", start |-> "periodic",
              sp1_start |-> "on", capability |-> Programs]
    /\ pidfile = DaemonPid("d1")
    /\ daemons = [d \in Daemons |-> IF d = "d1" THEN "loop" ELSE "none"]
    /\ main = InitMain
    /\ sigchld = FALSE
    /\ meta = [a \in Actions |-> NoMeta]
    /\ timer = NoTimer
    /\ lmap = NoLmap
    /\ csv = NoCsv
    /\ basedir = [NoDir EXCEPT !.tree = InitTree]

SpecDir == DirInit /\ [][DirNext]_vars

\* the entries Schedule-clean removed, and those it is to leave alone
CleanRemoved == basedir.before \ basedir.tree

CleanProtected ==
    {e \in basedir.before : \/ Len(e[1]) > 1
                            \/ e[1][1][1] = "_"
                            \/ e[2] = "dir"}

(***************************************************************************)
(* C35 as stated: Schedule-clean removes only regular files located        *)
(* directly in the base directory whose names do not begin with '_';       *)
(* _incoming and the files staged in it, the Action workspace and its      *)
(* contents and every entry whose name begins with '_' are unchanged.      *)
(***************************************************************************)
C35_CleanRemovesOnlyRegularFiles ==
    basedir.op = "schedule_clean" =>
        /\ basedir.tree \subseteq basedir.before
        /\ \A e \in CleanRemoved :
              Len(e[1]) = 1 /\ e[1][1][1] # "_" /\ e[2] = "reg"
        /\ CleanProtected \subseteq basedir.tree

(***************************************************************************)
(* C35 amended: Schedule-clean removes only entries located directly in    *)
(* the base directory that are not directories (regular files, symbolic    *)
(* links, FIFOs) and whose names do not begin with '_'; it adds nothing,   *)
(* and _incoming with the files staged in it, every subdirectory with its  *)
(* contents and every entry whose name begins with '_' are unchanged.      *)
(***************************************************************************)
C35_CleanRemovesOnlyNonDirectories ==
    basedir.op = "schedule_clean" =>
        /\ basedir.tree \subseteq basedir.before
        /\ \A e \in CleanRemoved :
              Len(e[1]) = 1 /\ e[1][1][1] # "_" /\ e[2] # "dir"
        /\ CleanProtected \subseteq basedir.tree

C35_Witness ==
    /\ basedir.op = "schedule_clean"
    /\ \E e \in CleanRemoved : e[2] = "reg"
    /\ <<<<KeptName>>, "reg">> \in basedir.tree
    /\ EntriesIn(basedir.tree, <<IncomingName>>) # {}
    /\ EntriesIn(basedir.tree, <<ActionDirName>>) # {}

(***************************************************************************)
(* C36: a daemon whose pid file could not be created or written at startup *)
(* exits with a failure status and never enters the event loop.            *)
(***************************************************************************)
C36_PidWriteFailureIsFatal ==
    \A d \in Daemons : d \in last.bad => daemons[d] # "loop"

(***************************************************************************)
(* Timed Events with a random spread.  lmap_event_set_random_spread only   *)
(* asks for a value below RAND_MAX, and lmap_event_valid does not compare  *)
(* the spread with the interval, so every pair is a validated Event.       *)
(***************************************************************************)
MaxSpread == 2

\* a calendar Event of which every field is '*': it matches every second
EverySecond ==
    [NoEvent EXCEPT !.type = "calendar", !.months = Bits(16),
                    !.days_of_month = Bits(32), !.days_of_week = Bits(8),
                    !.hours = Bits(32), !.minutes = Bits(64),
                    !.seconds = Bits(64)]

SpreadEvents ==
    {[e EXCEPT !.spread_set = TRUE, !.random_spread = r] :
         e \in PeriodicEvents \cup {EverySecond},
         r \in 0 .. MaxSpread}

\* the daemon is started with such an Event early on the first day
SpreadInit ==
    /\ cfg = [mode |-> "parallel", stop |-> "unset", tagging |-> "schedule",
              start |-> "periodic", sp1_start |-> "on",
              capability |-> Programs]
    /\ InitRunner
    /\ pidfile = DaemonPid("d1")
    /\ daemons = [d \in Daemons |-> IF d = "d1" THEN "loop" ELSE "none"]
    /\ main = InitMain
    /\ sigchld = FALSE
    /\ meta = [a \in Actions |-> NoMeta]
    /\ basedir = NoDir
    /\ lmap = NoLmap
    /\ csv = NoCsv
    /\ \E event \in SpreadEvents, t \in 0 .. MaxTime :
           timer = [NoTimer EXCEPT !.event = event, !.clock = t]

SpecSpread == SpreadInit /\ [][TimerNext]_vars

(***************************************************************************)
(* C37: whenever a trigger callback arms the fire timer of an Event no     *)
(* fire timer of that Event is pending: the assertion of event_gaga never  *)
(* fails, whatever the interval, the calendar specification and the        *)
(* random spread.                                                          *)
(***************************************************************************)
C37_FireTimerNeverPending == timer.pc # "aborted"

(***************************************************************************)
(* C38: the daemon cleans or moves the workspace of an Action only when    *)
(* the Action has no un-reaped child.  lmapd_cleanup moves and cleans      *)
(* after waitpid returned the child, so the case left is schedule_exec,    *)
(* which cleans the workspaces of all Actions of the Schedule it           *)
(* dispatches: at every dispatch no Action of the Schedule has a child.    *)
(***************************************************************************)
C38_NoCleanUnderLiveChild ==
    [][\A a \in Actions :
          (/\ fired'.n # fired.n
           /\ action_schedule(a) \in last'.dispatched)
          => procs[a].phase = "none"]_vars

(***************************************************************************)
(* The names of the result files.  A name is a sequence of characters;     *)
(* the names of Schedules and Actions are any strings the configuration    *)
(* gives them.                                                             *)
(***************************************************************************)
MaxNameLen == 3
NAME_MAX == 255

NameChars == {"a", "-", "%"}

isalnum(c) == c = "a"

\* const char safe[] = "-.,_"
SafeChars == {"-", ".", ",", "_"}

\* the two hexadecimal digits of the code of a character
HexOf(c) ==
    IF c = "-" THEN <<"2", "D">>
    ELSE IF c = "%" THEN <<"2", "5">>
    ELSE <<"6", "1">>

\* the loop of mksafe from character i on (the first character is 1): an
\* alphanumeric character and, past the first position, one of "-.,_" is
\* copied, any other is written as '%' and two hexadecimal digits
RECURSIVE mksafe_loop(_, _, _)
mksafe_loop(name, i, out) ==
    IF i > Len(name) \/ Len(out) >= NAME_MAX - 1 THEN out
    ELSE IF isalnum(name[i]) \/ (i > 1 /\ name[i] \in SafeChars)
    THEN mksafe_loop(name, i + 1, Append(out, name[i]))
    ELSE IF Len(out) < NAME_MAX - 4
    THEN mksafe_loop(name, i + 1, out \o <<"%">> \o HexOf(name[i]))
    ELSE out

mksafe(name) == mksafe_loop(name, 1, <<>>)

\* lmapd_workspace_action_open_data and _open_meta: the name of a result
\* file, t being last_invocation in decimal
result_file(t, sname, aname, ext) ==
    <<t, "-">> \o mksafe(sname) \o <<"-">> \o mksafe(aname) \o <<".", ext>>

\* the names of at most MaxNameLen characters; '%' only in the short ones
NameStrings ==
    UNION {[1 .. n -> NameChars] : n \in 1 .. (MaxNameLen - 1)}
    \cup [1 .. MaxNameLen -> {"a", "-"}]

\* an Action named aname of the Schedule named sname, invoked in second t,
\* has its .data file linked into _incoming of the destination Schedule;
\* link fails when the name exists
NameDeliver(sname, aname) ==
    /\ Cardinality(basedir.sent) < 2
    /\ <<sname, aname>> \notin {<<d[1], d[2]>> : d \in basedir.sent}
    /\ LET f == result_file("1", sname, aname, "data")
           e == <<<<IncomingName, f>>, "reg">>
       IN  basedir' = [op |-> "action_move", before |-> {},
                       ret |-> IF e \in basedir.tree THEN -1 ELSE 0,
                       tree |-> basedir.tree \cup {e},
                       sent |-> basedir.sent \cup {<<sname, aname, f>>}]
    /\ DirUnchanged

NameNext == \E sname, aname \in NameStrings : NameDeliver(sname, aname)

SpecName == DirInit /\ [][NameNext]_vars

(***************************************************************************)
(* C39: for one invocation second two distinct pairs (Schedule name,       *)
(* Action name) never give the same result file name, so that the results  *)
(* of different Actions delivered to one destination never collide.        *)
(***************************************************************************)
C39_ResultNamesDistinct ==
    \A d1, d2 \in basedir.sent :
        <<d1[1], d1[2]>> # <<d2[1], d2[2]>> => d1[3] # d2[3]

(***************************************************************************)
(* Fair execution.  Every forked child exits in the end: weak fairness of  *)
(* ChildExit.  The event loop runs lmapd_sigchld_cb while a child that has *)
(* exited is not reaped: weak fairness of Cleanup, which is enabled        *)
(* exactly when some child is a zombie and leaves none, so that it says    *)
(* the same as "again and again no child is a zombie".  Events fire as     *)
(* they will.  The Schedules are sequential or parallel and are started by *)
(* a periodic Event, the Suppression has stop-running or not.              *)
(***************************************************************************)
NoZombie == \A a \in Actions : procs[a].phase # "zombie"

FairConfigs ==
    [mode : {"sequential", "parallel"}, stop : {"unset", "true"},
     tagging : {"action"}, start : {"periodic"}, sp1_start : {"on"},
     capability : {Programs}]

FairInit ==
    /\ cfg \in FairConfigs
    /\ InitRunner
    /\ InitExt

SpecFair ==
    /\ FairInit
    /\ [][Next]_vars
    /\ []<>NoZombie
    /\ \A a \in Actions : WF_vars(ChildExit(a))

(***************************************************************************)
(* C40: under fair execution, with every forked child exiting in the end,  *)
(* every Schedule that is in state running leaves it, to enabled or        *)
(* suppressed, and every Action in state running leaves it: none stays     *)
(* running for ever, whatever the interleaving of Suppression starts and   *)
(* ends with the ends of the children.  A Schedule or Action in state      *)
(* running has a child that is not reaped.                                 *)
(***************************************************************************)
C40_RunningEnds ==
    /\ [](\A s \in Schedules :
             schedules[s].state = "running"
             => \E a \in Actions : /\ action_schedule(a) = s
                                   /\ procs[a].phase # "none")
    /\ [](\A a \in Actions :
             actions[a].state = "running" => procs[a].phase # "none")
    /\ [][\A s \in Schedules :
             (schedules[s].state = "running"
                  /\ schedules'[s].state # "running")
             => schedules'[s].state \in {"enabled", "suppressed"}]_vars
    /\ \A s \in Schedules :
          schedules[s].state = "running" ~> schedules[s].state # "running"
    /\ \A a \in Actions :
          actions[a].state = "running" ~> actions[a].state # "running"

\* a Schedule is running, one of its Actions is suppressed with its child
\* alive, and a Suppression is active
C40_Witness ==
    /\ schedules["s1"].state = "running"
    /\ actions["a1"].state = "suppressed"
    /\ procs["a1"].phase \in {"forked", "exec"}
    /\ actions["a2"].state = "running"
    /\ \E p \in DOMAIN supps : supps[p].state = "active"

====
